---- MODULE Spec2Model ----
(***************************************************************************)
(* Model of the settings datastore of the API server: the filesystem       *)
(* realization of the DataStore (datastore/filesystem.rs), the controller  *)
(* operations built on it (server/controller/mod.rs).                      *)
(*                                                                         *)
(* Strings are sequences of one-character strings, so that textual prefix  *)
(* tests, splitting on "." and the "/" <-> "." conversions are computed    *)
(* character by character as the code computes them.                       *)
(***************************************************************************)
EXTENDS Integers, Sequences, FiniteSets, TLC

VARIABLES dirs, files, last, client

vars == <<dirs, files, last, client>>

(***************************************************************************)
(* Text helpers                                                            *)
(***************************************************************************)

\* str::starts_with
StartsWith(text, prefix) ==
    /\ Len(prefix) <= Len(text)
    /\ SubSeq(text, 1, Len(prefix)) = prefix

\* str::split on a one-character separator ("" splits into one empty piece):
\* the pieces of text from position i on, cur being the piece read so far
RECURSIVE SplitFrom(_, _, _, _)
SplitFrom(text, sep, i, cur) ==
    IF i > Len(text) THEN <<cur>>
    ELSE IF text[i] = sep
    THEN <<cur>> \o SplitFrom(text, sep, i + 1, <<>>)
    ELSE SplitFrom(text, sep, i + 1, Append(cur, text[i]))

Split(text, sep) == SplitFrom(text, sep, 1, <<>>)

\* join pieces with a one-character separator
RECURSIVE Join(_, _)
Join(pieces, sep) ==
    IF pieces = <<>> THEN <<>>
    ELSE IF Len(pieces) = 1 THEN Head(pieces)
    ELSE Head(pieces) \o <<sep>> \o Join(Tail(pieces), sep)

\* str::replace of one character by another
Replace(text, from, to) ==
    [i \in 1..Len(text) |-> IF text[i] = from THEN to ELSE text[i]]

\* all sequences that enumerate the set s without repetition
RECURSIVE Orders(_)
Orders(s) ==
    IF s = {} THEN { <<>> }
    ELSE UNION { { <<x>> \o o : o \in Orders(s \ {x}) } : x \in s }

(***************************************************************************)
(* Keys (datastore/mod.rs, not part of the sources at hand)                *)
(***************************************************************************)

KEY_SEPARATOR == "."

METADATA_KEY_PREFIX == "."

MAIN_SEPARATOR == "/"

\* the characters of the class [A-Za-z0-9_-] that the model draws on
KeyChars ==
    {"a", "b", "c", "d", "e", "f", "g", "h", "i", "j", "k", "l", "m", "n",
     "o", "p", "q", "r", "s", "t", "u", "v", "w", "x", "y", "z", "-", "_"}

Scopes == {"Pending", "Live"}

\* Key::new: Ok(text) iff text is a valid key of the kind: one or more
\* segments of key characters separated by single dots (no empty segment,
\* so no leading, trailing or doubled dot), exactly one segment for Meta
KeyNew(kind, text) ==
    LET n    == Len(text)
        good == /\ n > 0
                /\ \A i \in 1..n : text[i] \in KeyChars \cup {KEY_SEPARATOR}
                /\ text[1] # KEY_SEPARATOR
                /\ text[n] # KEY_SEPARATOR
                /\ \A i \in 1..(n - 1) :
                       ~(text[i] = KEY_SEPARATOR /\ text[i + 1] = KEY_SEPARATOR)
                /\ (kind = "Meta" => \A i \in 1..n : text[i] # KEY_SEPARATOR)
    IN  [ok |-> good, key |-> text]

(***************************************************************************)
(* Paths.  A path is a scope (the tree <base>/live or <base>/pending) and   *)
(* the sequence of its components below the scope's root.                  *)
(***************************************************************************)

\* the components of a relative path text, as std::path normalises them
Components(text) ==
    SelectSeq(Split(text, MAIN_SEPARATOR), LAMBDA c : c # <<>> /\ c # <<".">>)

\* data_path joining the key to the base as a single component
data_path_unsplit(key, committed) ==
    IF key = <<>> \/ Head(key) = MAIN_SEPARATOR
    THEN [ok |-> FALSE, err |-> "PathTraversal", comps |-> <<>>]
    ELSE [ok |-> TRUE, err |-> "", comps |-> <<key>>]

\* FilesystemDataStore::data_path
data_path(key, committed) ==
    LET path_suffix == Replace(key, KEY_SEPARATOR, MAIN_SEPARATOR)
        absolute    == path_suffix # <<>> /\ Head(path_suffix) = MAIN_SEPARATOR
        comps       == Components(path_suffix)
    IN  IF absolute \/ comps = <<>>
        THEN [ok |-> FALSE, err |-> "PathTraversal", comps |-> <<>>]
        ELSE [ok |-> TRUE, err |-> "", comps |-> comps]

\* data_path of the key texts the clients of the model use, computed once
\* (the path of a key does not depend on the state)
data_path_table ==
    [key \in {
      <<"s", "e", "t", "t", "i", "n", "g", "s">>,
      <<"s", "e", "t", "t", "i", "n", "g", "s", ".", "h", "o", "s", "t",
        "n", "a", "m", "e">>,
      <<"s", "e", "t", "t", "i", "n", "g", "s", ".", "t", "i", "m", "e",
        "z", "o", "n", "e">>,
      <<"s", "e", "r", "v", "i", "c", "e", "s", ".", "f", "o", "o">>,
      <<"s", "e", "r", "v", "i", "c", "e", "s", ".", "f", "o", "o", ".",
        "c", "o", "n", "f", "i", "g", "u", "r", "a", "t", "i", "o", "n",
        "-", "f", "i", "l", "e", "s">>,
      <<"s", "e", "r", "v", "i", "c", "e", "s", ".", "f", "o", "o", ".",
        "r", "e", "s", "t", "a", "r", "t", "-", "c", "o", "m", "m", "a",
        "n", "d", "s">>,
      <<"s", "e", "r", "v", "i", "c", "e", "s", ".", "b", "a", "r", ".",
        "c", "o", "n", "f", "i", "g", "u", "r", "a", "t", "i", "o", "n",
        "-", "f", "i", "l", "e", "s">>,
      <<"s", "e", "r", "v", "i", "c", "e", "s", ".", "b", "a", "r", ".",
        "r", "e", "s", "t", "a", "r", "t", "-", "c", "o", "m", "m", "a",
        "n", "d", "s">>,
      <<"s", "e", "r", "v", "i", "c", "e", "s", ".", "f", "o", "o", "b",
        "a", "r", ".", "c", "o", "n", "f", "i", "g", "u", "r", "a", "t",
        "i", "o", "n", "-", "f", "i", "l", "e", "s">>,
      <<"c", "o", "n", "f", "i", "g", "u", "r", "a", "t", "i", "o", "n",
        "-", "f", "i", "l", "e", "s", ".", "f", "o", "o", ".", "p", "a",
        "t", "h">>,
      <<"c", "o", "n", "f", "i", "g", "u", "r", "a", "t", "i", "o", "n",
        "-", "f", "i", "l", "e", "s", ".", "f", "o", "o", ".", "t", "e",
        "m", "p", "l", "a", "t", "e", "-", "p", "a", "t", "h">> } |->
        data_path(key, "Live")]

\* data_path(key, committed), read from the table where the table has the key
data_path_cached(key, committed) ==
    IF key \in DOMAIN data_path_table THEN data_path_table[key]
    ELSE data_path(key, committed)

\* FilesystemDataStore::metadata_path
metadata_path(metadata_key, data_key, committed) ==
    LET dp == data_path_cached(data_key, committed)
    IN  IF ~dp.ok THEN dp
        ELSE LET basename == dp.comps[Len(dp.comps)]
                 dirname  == SubSeq(dp.comps, 1, Len(dp.comps) - 1)
                 filename == basename \o <<METADATA_KEY_PREFIX>> \o metadata_key
             IN  [ok |-> TRUE, err |-> "", comps |-> dirname \o <<filename>>]

(***************************************************************************)
(* The filesystem.  A store value d is [dirs, files]: dirs[S] is the set   *)
(* of directories of scope S (<<>> is the scope's root), files[S] maps the *)
(* regular files of scope S to their bytes.                                *)
(***************************************************************************)

\* the proper and improper ancestors of a directory path, the root included
Prefixes(comps) == { SubSeq(comps, 1, n) : n \in 0..Len(comps) }

IsFile(d, S, comps) == comps \in DOMAIN d.files[S]

IsDir(d, S, comps) == comps \in d.dirs[S]

\* Path::exists
Exists(d, S, comps) == IsFile(d, S, comps) \/ IsDir(d, S, comps)

\* some component of the path above it is a regular file (ENOTDIR)
BlockedByFile(d, S, comps) ==
    \E n \in 0..(Len(comps) - 1) : IsFile(d, S, SubSeq(comps, 1, n))

\* The faults the operating system can inject into one write_file_mkdir:
\* "io" makes create_dir_all fail (a failure of fs::write after it differs
\* only by the empty directories it leaves behind)
Faults == {"none", "io"}

\* write_file_mkdir replacing whatever stands in the way of the file: a file
\* above it becomes a directory, a directory at its place is removed with all
\* below it
write_file_mkdir_replacing(d, S, comps, data, fault) ==
    LET dirname == SubSeq(comps, 1, Len(comps) - 1)
        under   == { p \in DOMAIN d.files[S] \cup d.dirs[S] :
                        Len(p) >= Len(comps) /\ SubSeq(p, 1, Len(comps)) = comps }
        kept    == DOMAIN d.files[S] \ (Prefixes(dirname) \cup under)
    IN  IF fault = "io"
        THEN [ok |-> FALSE, err |-> "Io", d |-> d]
        ELSE [ok |-> TRUE, err |-> "",
              d |-> [d EXCEPT
                       !.dirs[S] = (@ \ under) \cup Prefixes(dirname),
                       !.files[S] =
                           [p \in kept \cup {comps} |->
                               IF p = comps THEN data ELSE @[p]]]]

\* write_file_mkdir: create_dir_all(parent), then fs::write
write_file_mkdir(d, S, comps, data, fault) ==
    LET dirname == SubSeq(comps, 1, Len(comps) - 1)
        made    == [d EXCEPT !.dirs[S] = @ \cup Prefixes(dirname)]
    IN  IF fault = "io" \/ \E p \in Prefixes(dirname) : IsFile(d, S, p)
        THEN [ok |-> FALSE, err |-> "Io", d |-> d]
        ELSE IF IsDir(made, S, comps)
        THEN [ok |-> FALSE, err |-> "Io", d |-> made]
        ELSE [ok |-> TRUE, err |-> "",
              d |-> [made EXCEPT !.files[S] =
                        [p \in DOMAIN @ \cup {comps} |->
                            IF p = comps THEN data ELSE @[p]]]]

\* read_file_for_key: Ok(Some), Ok(None) when not found, Err otherwise
read_file_for_key(d, S, comps) ==
    IF IsFile(d, S, comps)
    THEN [ok |-> TRUE, err |-> "", some |-> TRUE, value |-> d.files[S][comps]]
    ELSE IF IsDir(d, S, comps) \/ BlockedByFile(d, S, comps)
    THEN [ok |-> FALSE, err |-> "KeyRead", some |-> FALSE, value |-> <<>>]
    ELSE [ok |-> TRUE, err |-> "", some |-> FALSE, value |-> <<>>]

(***************************************************************************)
(* DataStore operations of the filesystem store                            *)
(***************************************************************************)

\* data_key_for_entry without the test of the file name
data_key_for_entry_unfiltered(comps) ==
    LET key_name == Replace(Join(comps, MAIN_SEPARATOR), MAIN_SEPARATOR,
                            KEY_SEPARATOR)
    IN  [ok |-> TRUE, err |-> "", some |-> TRUE, key |-> key_name]

\* data_key_for_entry, for the entry of the walk that is the regular file
\* comps of scope S (directories are skipped by the caller's walk)
data_key_for_entry(comps) ==
    LET filename == comps[Len(comps)]
        key_name == Replace(Join(comps, MAIN_SEPARATOR), MAIN_SEPARATOR,
                            KEY_SEPARATOR)
        key      == KeyNew("Data", key_name)
    IN  IF ~KeyNew("Meta", filename).ok
        THEN [ok |-> TRUE, err |-> "", some |-> FALSE, key |-> <<>>]
        ELSE IF ~key.ok
        THEN [ok |-> FALSE, err |-> "InvalidKey", some |-> FALSE, key |-> <<>>]
        ELSE [ok |-> TRUE, err |-> "", some |-> TRUE, key |-> key.key]

\* list_populated_keys taking a missing live tree for an empty one
list_populated_keys_lenient(d, prefix, committed) ==
    IF ~IsDir(d, committed, <<>>)
    THEN [ok |-> TRUE, err |-> "", keys |-> {}]
    ELSE LET entries == { data_key_for_entry(p) : p \in DOMAIN d.files[committed] }
             keys    == { e.key : e \in { x \in entries : x.ok /\ x.some } }
         IN  [ok |-> TRUE, err |-> "",
              keys |-> { k \in keys : StartsWith(k, prefix) }]

\* list_populated_keys listing the keys of both trees for either scope
list_populated_keys_any_scope(d, prefix, committed) ==
    LET entries == { data_key_for_entry(p) :
                       p \in UNION { DOMAIN d.files[S] : S \in Scopes } }
        keys    == { e.key : e \in { x \in entries : x.ok /\ x.some } }
    IN  [ok |-> TRUE, err |-> "",
         keys |-> { k \in keys : StartsWith(k, prefix) }]

\* FilesystemDataStore::list_populated_keys
list_populated_keys(d, prefix, committed) ==
    IF ~IsDir(d, committed, <<>>)
    THEN IF committed = "Live"
         THEN [ok |-> FALSE, err |-> "Corruption", keys |-> {}]
         ELSE [ok |-> TRUE, err |-> "", keys |-> {}]
    ELSE LET entries == { data_key_for_entry(p) : p \in DOMAIN d.files[committed] }
             keys    == { e.key : e \in { x \in entries : x.ok /\ x.some } }
         IN  IF \E e \in entries : ~e.ok
             THEN [ok |-> FALSE, err |-> "InvalidKey", keys |-> {}]
             ELSE [ok |-> TRUE, err |-> "",
                   keys |-> { k \in keys : StartsWith(k, prefix) }]

\* FilesystemDataStore::key_populated
key_populated(d, key, committed) ==
    LET path == data_path_cached(key, committed)
    IN  IF ~path.ok THEN [ok |-> FALSE, err |-> path.err, value |-> FALSE]
        ELSE [ok |-> TRUE, err |-> "", value |-> Exists(d, committed, path.comps)]

\* FilesystemDataStore::get_key
get_key(d, key, committed) ==
    LET path == data_path_cached(key, committed)
    IN  IF ~path.ok
        THEN [ok |-> FALSE, err |-> path.err, some |-> FALSE, value |-> <<>>]
        ELSE read_file_for_key(d, committed, path.comps)

\* set_key ignoring the scope it is given
set_key_pending_only(d, key, value, committed, fault) ==
    LET path == data_path_cached(key, "Pending")
    IN  IF ~path.ok THEN [ok |-> FALSE, err |-> path.err, d |-> d]
        ELSE write_file_mkdir(d, "Pending", path.comps, value, fault)

\* set_key keeping the value of a key that is already populated
set_key_first_wins(d, key, value, committed, fault) ==
    LET path == data_path_cached(key, committed)
    IN  IF ~path.ok THEN [ok |-> FALSE, err |-> path.err, d |-> d]
        ELSE IF IsFile(d, committed, path.comps)
        THEN [ok |-> fault = "none", err |-> "", d |-> d]
        ELSE write_file_mkdir(d, committed, path.comps, value, fault)

\* set_key reporting success without writing the file
set_key_unwritten(d, key, value, committed, fault) ==
    [ok |-> TRUE, err |-> "", d |-> d]

\* FilesystemDataStore::set_key
set_key(d, key, value, committed, fault) ==
    LET path == data_path_cached(key, committed)
    IN  IF ~path.ok THEN [ok |-> FALSE, err |-> path.err, d |-> d]
        ELSE write_file_mkdir(d, committed, path.comps, value, fault)

\* FilesystemDataStore::get_metadata_raw
get_metadata_raw(d, metadata_key, data_key) ==
    LET path == metadata_path(metadata_key, data_key, "Live")
    IN  IF ~path.ok
        THEN [ok |-> FALSE, err |-> path.err, some |-> FALSE, value |-> <<>>]
        ELSE read_file_for_key(d, "Live", path.comps)

\* set_metadata addressing the pending tree
set_metadata_pending(d, metadata_key, data_key, value, fault) ==
    LET path == metadata_path(metadata_key, data_key, "Pending")
    IN  IF ~path.ok THEN [ok |-> FALSE, err |-> path.err, d |-> d]
        ELSE write_file_mkdir(d, "Pending", path.comps, value, fault)

\* FilesystemDataStore::set_metadata
set_metadata(d, metadata_key, data_key, value, fault) ==
    LET path == metadata_path(metadata_key, data_key, "Live")
    IN  IF ~path.ok THEN [ok |-> FALSE, err |-> path.err, d |-> d]
        ELSE write_file_mkdir(d, "Live", path.comps, value, fault)

\* DataStore::set_keys (provided method of the trait): the pairs are written
\* one by one in the map's iteration order, failing fast on the first error.
\* pairs is the sequence of <<key text, value>> in iteration order; the
\* write number faultAt (0: none) suffers the injected fault.
RECURSIVE set_keys_from(_, _, _, _, _, _)
set_keys_from(d, pairs, i, committed, faultAt, fault) ==
    IF i > Len(pairs) THEN [ok |-> TRUE, err |-> "", d |-> d]
    ELSE LET key == KeyNew("Data", pairs[i][1])
             r   == set_key(d, key.key, pairs[i][2], committed,
                            IF i = faultAt THEN fault ELSE "none")
         IN  IF ~key.ok THEN [ok |-> FALSE, err |-> "InvalidKey", d |-> d]
             ELSE IF ~r.ok THEN r
             ELSE set_keys_from(r.d, pairs, i + 1, committed, faultAt, fault)

set_keys(d, pairs, committed, faultAt, fault) ==
    set_keys_from(d, pairs, 1, committed, faultAt, fault)

\* DataStore::get_prefix (provided method of the trait): the populated keys
\* with the prefix, each with its value
get_prefix(d, find_prefix, committed) ==
    LET listed == list_populated_keys(d, find_prefix, committed)
        reads  == [k \in listed.keys |-> get_key(d, k, committed)]
    IN  IF ~listed.ok THEN [ok |-> FALSE, err |-> listed.err, map |-> <<>>]
        ELSE IF \E k \in listed.keys : ~reads[k].ok
        THEN [ok |-> FALSE, err |-> "KeyRead", map |-> <<>>]
        ELSE IF \E k \in listed.keys : ~reads[k].some
        THEN [ok |-> FALSE, err |-> "ListedKeyNotPresent", map |-> <<>>]
        ELSE [ok |-> TRUE, err |-> "",
              map |-> [k \in listed.keys |-> reads[k].value]]

\* the name of the root of the settings
K_settings == <<"s", "e", "t", "t", "i", "n", "g", "s">>

\* the literal prefix of the keys a commit promotes
SettingsPrefix == <<"s", "e", "t", "t", "i", "n", "g", "s", ".">>

\* remove_dir_all of the base directory, live tree included
remove_everything(d, fault) ==
    IF fault \/ ~IsDir(d, "Pending", <<>>)
    THEN [ok |-> FALSE, err |-> "Io", d |-> d]
    ELSE [ok |-> TRUE, err |-> "",
          d |-> [dirs |-> [S \in Scopes |-> {}], files |-> [S \in Scopes |-> <<>>]]]

\* fs::remove_dir_all of the pending tree
remove_pending(d, fault) ==
    IF fault \/ ~IsDir(d, "Pending", <<>>)
    THEN [ok |-> FALSE, err |-> "Io", d |-> d]
    ELSE [ok |-> TRUE, err |-> "",
          d |-> [d EXCEPT !.dirs["Pending"] = {}, !.files["Pending"] = <<>>]]

\* the iteration orders of a map, as sequences of <<key, value>>
PairOrders(map) ==
    { [i \in 1..Len(o) |-> <<o[i], map[o[i]]>>] : o \in Orders(DOMAIN map) }

\* commit promoting the pending keys of every prefix
commit_any_prefix(d, order, faultAt, fault, rmFault) ==
    LET pending_data == get_prefix(d, <<>>, "Pending")
        written      == set_keys(d, order, "Live", faultAt, fault)
        removed      == remove_pending(written.d, rmFault)
    IN  IF ~pending_data.ok \/ ~written.ok \/ ~removed.ok
        THEN [ok |-> FALSE, err |-> "Io", ret |-> {}, d |-> d]
        ELSE [ok |-> TRUE, err |-> "", ret |-> DOMAIN pending_data.map,
              d |-> removed.d]

\* commit forgetting to copy the pending keys to live
commit_without_copy(d, order, faultAt, fault, rmFault) ==
    LET pending_data == get_prefix(d, SettingsPrefix, "Pending")
        removed      == remove_pending(d, rmFault)
    IN  IF ~pending_data.ok \/ ~removed.ok
        THEN [ok |-> FALSE, err |-> "Io", ret |-> {}, d |-> d]
        ELSE [ok |-> TRUE, err |-> "", ret |-> DOMAIN pending_data.map,
              d |-> removed.d]

\* commit forgetting to remove the pending tree
commit_without_removal(d, order, faultAt, fault, rmFault) ==
    LET pending_data == get_prefix(d, SettingsPrefix, "Pending")
        written      == set_keys(d, order, "Live", faultAt, fault)
    IN  IF ~pending_data.ok \/ ~written.ok
        THEN [ok |-> FALSE, err |-> "Io", ret |-> {}, d |-> written.d]
        ELSE [ok |-> TRUE, err |-> "", ret |-> DOMAIN pending_data.map,
              d |-> written.d]

\* commit making Live a mirror of the pending data
commit_mirroring(d, order, faultAt, fault, rmFault) ==
    LET pending_data == get_prefix(d, SettingsPrefix, "Pending")
        emptied      == [d EXCEPT !.dirs["Live"] = {<<>>}, !.files["Live"] = <<>>]
        written      == set_keys(emptied, order, "Live", faultAt, fault)
        removed      == remove_pending(written.d, rmFault)
    IN  IF ~pending_data.ok \/ ~written.ok \/ ~removed.ok
        THEN [ok |-> FALSE, err |-> "Io", ret |-> {}, d |-> d]
        ELSE [ok |-> TRUE, err |-> "", ret |-> DOMAIN pending_data.map,
              d |-> removed.d]

\* commit removing the pending tree although the copy failed
commit_dropping_pending(d, order, faultAt, fault, rmFault) ==
    LET pending_data == get_prefix(d, SettingsPrefix, "Pending")
        written      == set_keys(d, order, "Live", faultAt, fault)
        removed      == remove_pending(written.d, rmFault)
    IN  IF ~pending_data.ok
        THEN [ok |-> FALSE, err |-> pending_data.err, ret |-> {}, d |-> d]
        ELSE IF ~written.ok \/ ~removed.ok
        THEN [ok |-> FALSE, err |-> "Io", ret |-> {}, d |-> removed.d]
        ELSE [ok |-> TRUE, err |-> "", ret |-> DOMAIN pending_data.map,
              d |-> removed.d]

\* FilesystemDataStore::commit.  order is the iteration order of the map of
\* pending data, faultAt/fault the fault injected into the copy, rmFault the
\* fault injected into the removal of the pending tree.
commit(d, order, faultAt, fault, rmFault) ==
    LET pending_data == get_prefix(d, SettingsPrefix, "Pending")
        pending_keys == { KeyNew("Data", k) : k \in DOMAIN pending_data.map }
        written      == set_keys(d, order, "Live", faultAt, fault)
        removed      == remove_pending(written.d, rmFault)
    IN  IF ~pending_data.ok
        THEN [ok |-> FALSE, err |-> pending_data.err, ret |-> {}, d |-> d]
        ELSE IF \E k \in pending_keys : ~k.ok
        THEN [ok |-> FALSE, err |-> "InvalidKey", ret |-> {}, d |-> d]
        ELSE IF ~written.ok
        THEN [ok |-> FALSE, err |-> written.err, ret |-> {}, d |-> written.d]
        ELSE IF ~removed.ok
        THEN [ok |-> FALSE, err |-> removed.err, ret |-> {}, d |-> removed.d]
        ELSE [ok |-> TRUE, err |-> "",
              ret |-> { k.key : k \in pending_keys }, d |-> removed.d]

\* FilesystemDataStore::populate_default.  defaults is the iteration order of
\* the pairs flattened from the defaults document, metadatas the sequence of
\* its [key, md, val] metadata records with val already serialized;
\* mdFaultAt/mdFault the fault injected into the metadata writes.
RECURSIVE populate_metadata(_, _, _, _, _)
populate_metadata(d, metadatas, i, mdFaultAt, mdFault) ==
    IF i > Len(metadatas) THEN [ok |-> TRUE, err |-> "", d |-> d]
    ELSE LET data_key == KeyNew("Data", metadatas[i].key)
             md_key   == KeyNew("Data", metadatas[i].md)
             r        == set_metadata(d, md_key.key, data_key.key,
                                      metadatas[i].val,
                                      IF i = mdFaultAt THEN mdFault ELSE "none")
         IN  IF ~data_key.ok \/ ~md_key.ok
             THEN [ok |-> FALSE, err |-> "InvalidKey", d |-> d]
             ELSE IF ~r.ok THEN r
             ELSE populate_metadata(r.d, metadatas, i + 1, mdFaultAt, mdFault)

populate_default(d, defaults, metadatas, faultAt, fault, mdFaultAt, mdFault) ==
    LET written == set_keys(d, defaults, "Live", faultAt, fault)
    IN  IF ~written.ok THEN written
        ELSE populate_metadata(written.d, metadatas, 1, mdFaultAt, mdFault)

(***************************************************************************)
(* Typed model and serialization (model.rs, datastore/serialization.rs,    *)
(* not part of the sources at hand)                                        *)
(***************************************************************************)

\* number of distinct string values a settings field takes in the model
NumStrings == 2

StringPool == << <<"h">>, <<"t", "z">>, <<"v">>, <<"c">> >>

Strings == { StringPool[i] : i \in 1..NumStrings }

None == [some |-> FALSE, value |-> <<>>]

Some(v) == [some |-> TRUE, value |-> v]

Option(set) == {None} \cup { Some(v) : v \in set }

\* the fields of Settings carried by the model, with their external names
SettingsFields == {"hostname", "timezone"}

FieldName ==
    [hostname |-> <<"h", "o", "s", "t", "n", "a", "m", "e">>,
     timezone |-> <<"t", "i", "m", "e", "z", "o", "n", "e">>]

Settings == [SettingsFields -> Option(Strings)]

\* Settings::default()
DefaultSettings == [f \in SettingsFields |-> None]

\* the JSON encoding of a string scalar: quoted, with " and \ escaped
RECURSIVE JsonEscape(_)
JsonEscape(s) ==
    IF s = <<>> THEN <<>>
    ELSE (IF Head(s) \in {"\"", "\\"} THEN <<"\\", Head(s)>> ELSE <<Head(s)>>)
         \o JsonEscape(Tail(s))

serialize_scalar(s) == <<"\"">> \o JsonEscape(s) \o <<"\"">>

\* to_pairs of a Settings: one pair per field that is set
to_pairs(settings) ==
    LET set == { f \in SettingsFields : settings[f].some }
        keyOf(f) == SettingsPrefix \o FieldName[f]
        fieldOf(k) == CHOOSE f \in set : keyOf(f) = k
    IN  [k \in { keyOf(f) : f \in set } |->
            serialize_scalar(settings[fieldOf(k)].value)]

\* the inverse of JsonEscape: fails on a bare " or on a dangling \
RECURSIVE JsonUnescape(_)
JsonUnescape(s) ==
    IF s = <<>> THEN [ok |-> TRUE, value |-> <<>>]
    ELSE IF Head(s) = "\""
    THEN [ok |-> FALSE, value |-> <<>>]
    ELSE IF Head(s) = "\\"
    THEN IF Len(s) < 2 \/ s[2] \notin {"\"", "\\"}
         THEN [ok |-> FALSE, value |-> <<>>]
         ELSE LET rest == JsonUnescape(SubSeq(s, 3, Len(s)))
              IN  [ok |-> rest.ok, value |-> <<s[2]>> \o rest.value]
    ELSE LET rest == JsonUnescape(Tail(s))
         IN  [ok |-> rest.ok, value |-> <<Head(s)>> \o rest.value]

\* deserialize_scalar of a string scalar
deserialize_scalar(text) ==
    IF Len(text) < 2 \/ text[1] # "\"" \/ text[Len(text)] # "\""
    THEN [ok |-> FALSE, value |-> <<>>]
    ELSE JsonUnescape(SubSeq(text, 2, Len(text) - 1))

\* from_map of a Settings: every key must name a field of the record (strict
\* schema) and every value must decode; fields without a key stay absent
from_map(data) ==
    LET keyOf(f)  == SettingsPrefix \o FieldName[f]
        known     == { keyOf(f) : f \in SettingsFields }
        decoded   == [k \in DOMAIN data |-> deserialize_scalar(data[k])]
    IN  IF \E k \in DOMAIN data : k \notin known \/ ~decoded[k].ok
        THEN [ok |-> FALSE, err |-> "Deserialization", value |-> DefaultSettings]
        ELSE [ok |-> TRUE, err |-> "",
              value |-> [f \in SettingsFields |->
                            IF keyOf(f) \in DOMAIN data
                            THEN Some(decoded[keyOf(f)].value)
                            ELSE None]]

(***************************************************************************)
(* JSON texts (serde_json) and the decoding of the typed model from them   *)
(***************************************************************************)

Digits == {"0", "1", "2", "3", "4", "5", "6", "7", "8", "9"}

\* JSON values: a tag, the characters of a string or number, and the items
\* of an array (values) or of an object (members [k, v], in text order)
JStr(s) == [t |-> "string", s |-> s, items |-> <<>>]

JNum(s) == [t |-> "number", s |-> s, items |-> <<>>]

JNull == [t |-> "null", s |-> <<>>, items |-> <<>>]

JArr(items) == [t |-> "array", s |-> <<>>, items |-> items]

JObj(members) == [t |-> "object", s |-> <<>>, items |-> members]

ParseFail == [ok |-> FALSE, v |-> JNull, next |-> 0]

\* the characters of a string literal from position i, after its opening
\* quote, up to its closing quote; \" and \\ are the escapes read
RECURSIVE ScanString(_, _, _)
ScanString(text, i, acc) ==
    IF i > Len(text) THEN ParseFail
    ELSE IF text[i] = "\""
    THEN [ok |-> TRUE, v |-> JStr(acc), next |-> i + 1]
    ELSE IF text[i] = "\\"
    THEN IF i + 1 > Len(text) \/ text[i + 1] \notin {"\"", "\\"}
         THEN ParseFail
         ELSE ScanString(text, i + 2, Append(acc, text[i + 1]))
    ELSE ScanString(text, i + 1, Append(acc, text[i]))

\* the position after the digits that start at i
RECURSIVE ScanNumber(_, _)
ScanNumber(text, i) ==
    IF i <= Len(text) /\ text[i] \in Digits THEN ScanNumber(text, i + 1) ELSE i

\* word occurs in text at position i
StartsAt(text, i, word) ==
    /\ i + Len(word) - 1 <= Len(text)
    /\ SubSeq(text, i, i + Len(word) - 1) = word

\* the JSON value that starts at position i of a text without white space,
\* and the position after it
RECURSIVE ParseValue(_, _)
RECURSIVE ParseElements(_, _, _)
RECURSIVE ParseMembers(_, _, _)
ParseValue(text, i) ==
    IF i > Len(text) THEN ParseFail
    ELSE IF text[i] = "\"" THEN ScanString(text, i + 1, <<>>)
    ELSE IF text[i] \in Digits
    THEN LET j == ScanNumber(text, i)
         IN  [ok |-> TRUE, v |-> JNum(SubSeq(text, i, j - 1)), next |-> j]
    ELSE IF StartsAt(text, i, <<"n", "u", "l", "l">>)
    THEN [ok |-> TRUE, v |-> JNull, next |-> i + 4]
    ELSE IF text[i] = "["
    THEN IF StartsAt(text, i + 1, <<"]">>)
         THEN [ok |-> TRUE, v |-> JArr(<<>>), next |-> i + 2]
         ELSE ParseElements(text, i + 1, <<>>)
    ELSE IF text[i] = "{"
    THEN IF StartsAt(text, i + 1, <<"}">>)
         THEN [ok |-> TRUE, v |-> JObj(<<>>), next |-> i + 2]
         ELSE ParseMembers(text, i + 1, <<>>)
    ELSE ParseFail

\* the elements of an array from position i on, acc being those read so far
ParseElements(text, i, acc) ==
    LET e == ParseValue(text, i)
    IN  IF ~e.ok \/ e.next > Len(text) THEN ParseFail
        ELSE IF text[e.next] = ","
        THEN ParseElements(text, e.next + 1, Append(acc, e.v))
        ELSE IF text[e.next] = "]"
        THEN [ok |-> TRUE, v |-> JArr(Append(acc, e.v)), next |-> e.next + 1]
        ELSE ParseFail

\* the members of an object from position i on, acc being those read so far
ParseMembers(text, i, acc) ==
    IF i > Len(text) \/ text[i] # "\"" THEN ParseFail
    ELSE LET k == ScanString(text, i + 1, <<>>)
         IN  IF ~k.ok \/ k.next > Len(text) \/ text[k.next] # ":"
             THEN ParseFail
             ELSE LET e == ParseValue(text, k.next + 1)
                      m == Append(acc, [k |-> k.v.s, v |-> e.v])
                  IN  IF ~e.ok \/ e.next > Len(text) THEN ParseFail
                      ELSE IF text[e.next] = ","
                      THEN ParseMembers(text, e.next + 1, m)
                      ELSE IF text[e.next] = "}"
                      THEN [ok |-> TRUE, v |-> JObj(m), next |-> e.next + 1]
                      ELSE ParseFail

\* serde_json::from_str into a serde_json::Value: the text is one JSON value
from_str(text) ==
    LET r == ParseValue(text, 1)
    IN  IF r.ok /\ r.next = Len(text) + 1
        THEN [ok |-> TRUE, v |-> r.v]
        ELSE [ok |-> FALSE, v |-> JNull]

\* the members of an object that have the key
Members(v, key) == SelectSeq(v.items, LAMBDA m : m.k = key)

\* serde_json::from_value into a Settings: an object whose keys are fields of
\* Settings (strict schema), each at most once, each a string or null
settings_from_value(v) ==
    LET names == { FieldName[f] : f \in SettingsFields }
        good  == /\ v.t = "object"
                 /\ \A i \in 1..Len(v.items) :
                        /\ v.items[i].k \in names
                        /\ v.items[i].v.t \in {"string", "null"}
                        /\ Len(Members(v, v.items[i].k)) = 1
    IN  IF ~good THEN [ok |-> FALSE, value |-> DefaultSettings]
        ELSE [ok |-> TRUE,
              value |-> [f \in SettingsFields |->
                  LET ms == Members(v, FieldName[f])
                  IN  IF ms # <<>> /\ ms[1].v.t = "string"
                      THEN Some(ms[1].v.s) ELSE None]]

\* the fields of a Service and of a ConfigurationFile, with their external
\* names
ItemFieldName ==
    [Service |->
        [configuration_files |->
            <<"c", "o", "n", "f", "i", "g", "u", "r", "a", "t", "i", "o", "n",
              "-", "f", "i", "l", "e", "s">>,
         restart_commands |->
            <<"r", "e", "s", "t", "a", "r", "t", "-", "c", "o", "m", "m", "a",
              "n", "d", "s">>],
     ConfigurationFile |->
        [path |-> <<"p", "a", "t", "h">>,
         template_path |->
            <<"t", "e", "m", "p", "l", "a", "t", "e", "-", "p", "a", "t", "h">>]]

\* the decoding of a Vec<String>: a JSON array of strings
strings_from_text(text) ==
    LET r == from_str(text)
    IN  IF r.ok /\ r.v.t = "array"
              /\ \A i \in 1..Len(r.v.items) : r.v.items[i].t = "string"
        THEN [ok |-> TRUE,
              value |-> [i \in 1..Len(r.v.items) |-> r.v.items[i].s]]
        ELSE [ok |-> FALSE, value |-> <<>>]

\* the decoding of a field of an item: the fields of a Service are sequences
\* of strings, those of a ConfigurationFile strings
item_field_from_text(kind, text) ==
    IF kind = "Service" THEN strings_from_text(text)
    ELSE deserialize_scalar(text)

\* from_map_with_prefix(Some(item_prefix), data) into an item: the keys are
\* item_prefix + "." + field for every field of the record and for nothing
\* else (strict schema, no optional field), and every value decodes
item_from_map_with_prefix(kind, item_prefix, data) ==
    LET names    == ItemFieldName[kind]
        keyOf(f) == item_prefix \o <<KEY_SEPARATOR>> \o names[f]
        decoded  == [k \in DOMAIN data |-> item_field_from_text(kind, data[k])]
    IN  IF \/ DOMAIN data # { keyOf(f) : f \in DOMAIN names }
           \/ \E k \in DOMAIN data : ~decoded[k].ok
        THEN [ok |-> FALSE, value |-> <<>>]
        ELSE [ok |-> TRUE,
              value |-> [f \in DOMAIN names |-> decoded[keyOf(f)].value]]

(***************************************************************************)
(* Controller (server/controller/mod.rs)                                   *)
(***************************************************************************)

\* get_prefix of the controller, for a Settings (no strip_prefix, no
\* map_prefix): Ok(None) when no key is populated under find_prefix
controller_get_prefix(d, committed, find_prefix) ==
    LET listed == list_populated_keys(d, find_prefix, committed)
        reads  == [k \in listed.keys |-> get_key(d, k, committed)]
        parsed == from_map([k \in listed.keys |-> reads[k].value])
    IN  IF ~listed.ok
        THEN [ok |-> FALSE, err |-> "DataStore", some |-> FALSE,
              value |-> DefaultSettings]
        ELSE IF listed.keys = {}
        THEN [ok |-> TRUE, err |-> "", some |-> FALSE, value |-> DefaultSettings]
        ELSE IF \E k \in listed.keys : ~reads[k].ok
        THEN [ok |-> FALSE, err |-> "DataStore", some |-> FALSE,
              value |-> DefaultSettings]
        ELSE IF \E k \in listed.keys : ~reads[k].some
        THEN [ok |-> FALSE, err |-> "ListedKeyNotPresent", some |-> FALSE,
              value |-> DefaultSettings]
        ELSE IF ~parsed.ok
        THEN [ok |-> FALSE, err |-> parsed.err, some |-> FALSE,
              value |-> DefaultSettings]
        ELSE [ok |-> TRUE, err |-> "", some |-> TRUE, value |-> parsed.value]

\* get_settings taking None for the default Settings
get_settings_or_default(d, committed) ==
    LET r == controller_get_prefix(d, committed, SettingsPrefix)
    IN  [ok |-> r.ok, err |-> r.err, value |-> r.value]

\* get_settings: None is an error here
get_settings(d, committed) ==
    LET r == controller_get_prefix(d, committed, SettingsPrefix)
    IN  IF r.ok /\ ~r.some
        THEN [ok |-> FALSE, err |-> "MissingData", value |-> DefaultSettings]
        ELSE [ok |-> r.ok, err |-> r.err, value |-> r.value]

\* get_pending_settings erring when Pending holds no settings
get_pending_settings_strict(d) ==
    get_settings(d, "Pending")

\* get_pending_settings: None becomes Settings::default()
get_pending_settings(d) ==
    LET r == controller_get_prefix(d, "Pending", SettingsPrefix)
    IN  IF r.ok /\ ~r.some
        THEN [ok |-> TRUE, err |-> "", value |-> DefaultSettings]
        ELSE [ok |-> r.ok, err |-> r.err, value |-> r.value]

\* get_settings_prefix not narrowing the listing by the prefix it is given
get_settings_prefix_all(d, prefix, committed) ==
    LET r == controller_get_prefix(d, committed, SettingsPrefix)
    IN  [ok |-> r.ok, err |-> r.err, value |-> r.value]

\* get_settings_prefix: None is the default Settings here
get_settings_prefix(d, prefix, committed) ==
    LET r == controller_get_prefix(d, committed, SettingsPrefix \o prefix)
    IN  IF r.ok /\ ~r.some
        THEN [ok |-> TRUE, err |-> "", value |-> DefaultSettings]
        ELSE [ok |-> r.ok, err |-> r.err, value |-> r.value]

\* the loop of get_settings_keys over the requested texts in the iteration
\* order of the set, data being the map collected so far
RECURSIVE get_settings_keys_from(_, _, _, _, _)
get_settings_keys_from(d, keys, i, committed, data) ==
    IF i > Len(keys) THEN [ok |-> TRUE, err |-> "", data |-> data]
    ELSE LET key   == KeyNew("Data", keys[i])
             value == get_key(d, key.key, committed)
             more  == [k \in DOMAIN data \cup {keys[i]} |->
                          IF k = keys[i] THEN value.value ELSE data[k]]
         IN  IF ~key.ok THEN [ok |-> FALSE, err |-> "NewKey", data |-> <<>>]
             ELSE IF ~value.ok
             THEN [ok |-> FALSE, err |-> "DataStore", data |-> <<>>]
             ELSE IF ~value.some
             THEN get_settings_keys_from(d, keys, i + 1, committed, data)
             ELSE get_settings_keys_from(d, keys, i + 1, committed, more)

\* get_settings_keys returning every setting of the scope, requested or not
get_settings_keys_all(d, keys, committed) ==
    get_settings_prefix(d, <<>>, committed)

\* get_settings_keys; keys is the iteration order of the requested set
get_settings_keys(d, keys, committed) ==
    LET got    == get_settings_keys_from(d, keys, 1, committed, <<>>)
        parsed == from_map(got.data)
    IN  IF ~got.ok THEN [ok |-> FALSE, err |-> got.err, value |-> DefaultSettings]
        ELSE parsed

\* the literal prefixes of get_services_names and get_configuration_files_names
ServicesPrefix ==
    <<"s", "e", "r", "v", "i", "c", "e", "s", ".">>

ConfigurationFilesPrefix ==
    <<"c", "o", "n", "f", "i", "g", "u", "r", "a", "t", "i", "o", "n", "-",
      "f", "i", "l", "e", "s", ".">>

\* get_map_from_prefix, for the items of the kind ("Service" or
\* "ConfigurationFile"); names is the iteration order of the requested set,
\* result the map collected so far
RECURSIVE get_map_from_prefix_from(_, _, _, _, _, _, _)
get_map_from_prefix_from(d, prefix, names, i, committed, kind, result) ==
    IF i > Len(names) THEN [ok |-> TRUE, err |-> "", map |-> result]
    ELSE LET item_prefix == prefix \o names[i]
             keys        == list_populated_keys(d, item_prefix, committed)
             reads       == [k \in keys.keys |-> get_key(d, k, committed)]
             item_data   == [k \in keys.keys |-> reads[k].value]
             item        == item_from_map_with_prefix(kind, item_prefix, item_data)
             more        == [n \in DOMAIN result \cup {names[i]} |->
                                IF n = names[i] THEN item.value ELSE result[n]]
         IN  IF ~keys.ok THEN [ok |-> FALSE, err |-> "DataStore", map |-> <<>>]
             ELSE IF keys.keys = {}
             THEN [ok |-> FALSE, err |-> "ListKeys", map |-> <<>>]
             ELSE IF \E k \in keys.keys : ~reads[k].ok
             THEN [ok |-> FALSE, err |-> "DataStore", map |-> <<>>]
             ELSE IF \E k \in keys.keys : ~reads[k].some
             THEN [ok |-> FALSE, err |-> "ListedKeyNotPresent", map |-> <<>>]
             ELSE IF ~item.ok
             THEN [ok |-> FALSE, err |-> "Deserialization", map |-> <<>>]
             ELSE get_map_from_prefix_from(d, prefix, names, i + 1, committed,
                                           kind, more)

get_map_from_prefix(d, prefix, names, committed, kind) ==
    get_map_from_prefix_from(d, prefix, names, 1, committed, kind, <<>>)

\* get_services_names leaving out the names without data
get_services_names_lenient(d, names, committed) ==
    get_map_from_prefix(d, ServicesPrefix,
        SelectSeq(names, LAMBDA n :
            list_populated_keys(d, ServicesPrefix \o n, committed).keys # {}),
        committed, "Service")

\* get_services_names
get_services_names(d, names, committed) ==
    get_map_from_prefix(d, ServicesPrefix, names, committed, "Service")

\* get_configuration_files_names
get_configuration_files_names(d, names, committed) ==
    get_map_from_prefix(d, ConfigurationFilesPrefix, names, committed,
                        "ConfigurationFile")

\* the result of settings_input
InputOk(settings) == [ok |-> TRUE, err |-> "", value |-> settings]

InputErr(err) == [ok |-> FALSE, err |-> err, value |-> DefaultSettings]

\* settings_input without the stripping of an outer "settings" layer
settings_input_direct_only(input) ==
    LET val == from_str(input)
        x   == settings_from_value(val.v)
    IN  IF val.ok /\ x.ok THEN InputOk(x.value)
        ELSE InputErr("InvalidSettings")

\* settings_input reporting every failure as InvalidSettings
settings_input_one_error(input) ==
    LET val   == from_str(input)
        x     == settings_from_value(val.v)
        inner == Members(val.v, K_settings)
        y     == settings_from_value(inner[Len(inner)].v)
    IN  IF val.ok /\ x.ok THEN InputOk(x.value)
        ELSE IF val.ok /\ val.v.t = "object" /\ inner # <<>> /\ y.ok
        THEN InputOk(y.value)
        ELSE InputErr("InvalidSettings")

\* settings_input: the direct decoding of the text as a Settings, and when
\* it fails the decoding of the "settings" field of the text parsed as a
\* generic JSON object
settings_input(input) ==
    LET val   == from_str(input)
        x     == settings_from_value(val.v)
        inner == Members(val.v, K_settings)
        y     == settings_from_value(inner[Len(inner)].v)
    IN  IF val.ok /\ x.ok THEN InputOk(x.value)
        ELSE IF ~val.ok THEN InputErr("InvalidJson")
        ELSE IF val.v.t # "object" THEN InputErr("NotJsonObject")
        ELSE IF inner = <<>> THEN InputErr("NoSettings")
        ELSE IF ~y.ok THEN InputErr("InvalidSettings")
        ELSE InputOk(y.value)

\* set_settings writing the first pair only
set_settings_first_only(d, order, faultAt, fault) ==
    set_keys(d, IF order = <<>> THEN <<>> ELSE <<order[1]>>, "Pending",
             faultAt, fault)

\* set_settings writing to the live scope
set_settings_live(d, order, faultAt, fault) ==
    set_keys(d, order, "Live", faultAt, fault)

\* set_settings; order is the iteration order of the pairs flattened from
\* the Settings by to_pairs
set_settings(d, order, faultAt, fault) ==
    set_keys(d, order, "Pending", faultAt, fault)

\* DataStore::get_metadata (provided method of the trait): the metadata
\* value of the data key
get_metadata(d, metadata_key, data_key) ==
    get_metadata_raw(d, metadata_key, data_key)

\* deserialize_scalar into a serde_json::Value
deserialize_scalar_value(text) == from_str(text)

\* the loop of get_metadata of the controller over the requested texts in
\* the iteration order of the set, data being the map collected so far
RECURSIVE controller_get_metadata_from(_, _, _, _, _)
controller_get_metadata_from(d, md_key, data_key_strs, i, data) ==
    IF i > Len(data_key_strs) THEN [ok |-> TRUE, err |-> "", map |-> data]
    ELSE LET data_key_str == data_key_strs[i]
             data_key  == KeyNew("Data", data_key_str)
             value_str == get_metadata(d, md_key, data_key.key)
             value     == deserialize_scalar_value(value_str.value)
             more      == [k \in DOMAIN data \cup {data_key_str} |->
                              IF k = data_key_str THEN value.v ELSE data[k]]
         IN  IF ~data_key.ok THEN [ok |-> FALSE, err |-> "NewKey", map |-> <<>>]
             ELSE IF ~value_str.ok \/ ~value_str.some
             THEN controller_get_metadata_from(d, md_key, data_key_strs, i + 1,
                                               data)
             ELSE IF ~value.ok
             THEN [ok |-> FALSE, err |-> "InvalidMetadata", map |-> <<>>]
             ELSE controller_get_metadata_from(d, md_key, data_key_strs, i + 1,
                                               more)

\* get_metadata of the controller looking at the first requested key only
controller_get_metadata_first(d, md_key_str, data_key_strs) ==
    LET md_key == KeyNew("Meta", md_key_str)
    IN  IF ~md_key.ok THEN [ok |-> FALSE, err |-> "NewKey", map |-> <<>>]
        ELSE controller_get_metadata_from(d, md_key.key,
                 IF data_key_strs = <<>> THEN <<>> ELSE <<data_key_strs[1]>>,
                 1, <<>>)

\* get_metadata of the controller; data_key_strs is the iteration order of
\* the requested set
controller_get_metadata(d, md_key_str, data_key_strs) ==
    LET md_key == KeyNew("Meta", md_key_str)
    IN  IF ~md_key.ok THEN [ok |-> FALSE, err |-> "NewKey", map |-> <<>>]
        ELSE controller_get_metadata_from(d, md_key.key, data_key_strs, 1, <<>>)

\* commit
controller_commit(d, order, faultAt, fault, rmFault) ==
    commit(d, order, faultAt, fault, rmFault)

(***************************************************************************)
(* Inputs                                                                  *)
(***************************************************************************)

K_hostname == SettingsPrefix \o FieldName.hostname

K_timezone == SettingsPrefix \o FieldName.timezone

K_services_foo == <<"s", "e", "r", "v", "i", "c", "e", "s", ".", "f", "o", "o">>

\* the texts clients make data keys from
DataKeyTexts == {K_hostname, K_timezone, K_settings, K_services_foo}

\* the data keys made from a set of texts
DataKeys(texts) == { t \in texts : KeyNew("Data", t).ok }

\* the texts clients make metadata keys from
MetaKeyTexts == { <<"m", "d">> }

MetaKeys == { t \in MetaKeyTexts : KeyNew("Meta", t).ok }

\* The clients of one run: the data keys they use and the data keys they
\* attach metadata to
Clients ==
    { [keys |-> {K_hostname, K_timezone}, targets |-> {}],
      [keys |-> {K_hostname, K_settings}, targets |-> {K_hostname}],
      [keys |-> {K_hostname, K_services_foo}, targets |-> {}] }

\* the values clients store
Values == { serialize_scalar(s) : s \in Strings }

\* a is a strict prefix of b on segment boundaries (a vs a.b)
SegmentPrefix(a, b) == a # b /\ StartsWith(b, a \o <<KEY_SEPARATOR>>)

\* the value the defaults document gives to every key it sets
DefaultValue == serialize_scalar(StringPool[1])

\* the flattened defaults documents of the model (defaults.toml is fixed at
\* compile time): a document cannot hold a scalar and a table under the same
\* name, so its keys are prefix-free
DefaultsDocs(keys) ==
    { [k \in ks |-> DefaultValue] :
        ks \in { x \in SUBSET keys :
                    /\ x # {}
                    /\ \A a, b \in x : ~SegmentPrefix(a, b)
                    /\ \A y \in SUBSET keys :
                          (x \subseteq y /\ \A a, b \in y : ~SegmentPrefix(a, b))
                              => y = x } }

\* the metadata sections of the defaults document of the model
DefaultsMetadata(targets) ==
    IF targets = {} THEN { <<>> }
    ELSE { << [key |-> k, md |-> m, val |-> DefaultValue] >> :
             <<k, m>> \in targets \X MetaKeyTexts }

\* the faults that may hit a run of n writes: none, or one at write number i
FaultChoices(n) ==
    { <<0, "none">> } \cup ((1..n) \X {"io"})

(***************************************************************************)
(* State machine                                                           *)
(***************************************************************************)

store == [dirs |-> dirs, files |-> files]

NoKey == <<>>

\* the record of the last call: operation, outcome and, for a call that
\* succeeded, its arguments and return value
Call(op, ok, scope, key, meta, value, settings, ret) ==
    IF ok
    THEN [op |-> op, ok |-> ok, scope |-> scope, key |-> key, meta |-> meta,
          value |-> value, settings |-> settings, ret |-> ret]
    ELSE [op |-> op, ok |-> ok, scope |-> "", key |-> <<>>, meta |-> <<>>,
          value |-> <<>>, settings |-> DefaultSettings, ret |-> {}]

\* FilesystemDataStore::new creates nothing on disk
Init ==
    /\ dirs = [S \in Scopes |-> {}]
    /\ files = [S \in Scopes |-> <<>>]
    /\ last = Call("new", TRUE, "", NoKey, NoKey, <<>>, DefaultSettings, {})
    /\ client \in Clients

Becomes(d) ==
    /\ dirs' = d.dirs
    /\ files' = d.files
    /\ UNCHANGED client

SetKey ==
    \E k \in DataKeys(client.keys), v \in Values, S \in Scopes, fault \in Faults :
        LET r == set_key(store, k, v, S, fault)
        IN  /\ Becomes(r.d)
            /\ last' = Call("set_key", r.ok, S, k, NoKey, v, DefaultSettings, {})

PopulateDefault ==
    \E doc \in DefaultsDocs(client.keys), metadatas \in DefaultsMetadata(client.targets) :
        \E defaults \in PairOrders(doc),
           f \in FaultChoices(Cardinality(DOMAIN doc)),
           mf \in FaultChoices(Len(metadatas)) :
            LET r == populate_default(store, defaults, metadatas,
                                      f[1], f[2], mf[1], mf[2])
            IN  /\ Becomes(r.d)
                /\ last' = Call("populate_default", r.ok, "Live", NoKey, NoKey,
                                <<>>, DefaultSettings, {})

SetMetadata ==
    \E m \in MetaKeys, k \in DataKeys(client.targets), v \in Values,
       fault \in Faults :
        LET r == set_metadata(store, m, k, v, fault)
        IN  /\ Becomes(r.d)
            /\ last' = Call("set_metadata", r.ok, "Live", k, m, v,
                            DefaultSettings, {})

SetSettings ==
    \E settings \in { s \in Settings : DOMAIN to_pairs(s) \subseteq client.keys } :
        \E order \in PairOrders(to_pairs(settings)),
           f \in FaultChoices(Cardinality(DOMAIN to_pairs(settings))) :
            LET r == set_settings(store, order, f[1], f[2])
            IN  /\ Becomes(r.d)
                /\ last' = Call("set_settings", r.ok, "Pending", NoKey, NoKey,
                                <<>>, settings, {})

Commit ==
    LET pending_data == get_prefix(store, SettingsPrefix, "Pending").map
    IN  \E order \in PairOrders(pending_data),
           f \in FaultChoices(Cardinality(DOMAIN pending_data)),
           rmFault \in BOOLEAN :
            LET r == controller_commit(store, order, f[1], f[2], rmFault)
            IN  /\ Becomes(r.d)
                /\ last' = Call("commit", r.ok, "", NoKey, NoKey, <<>>,
                                DefaultSettings, r.ret)

Next ==
    \/ SetKey
    \/ PopulateDefault
    \/ SetMetadata
    \/ SetSettings
    \/ Commit

Spec == Init /\ [][Next]_vars

(***************************************************************************)
(* Properties                                                              *)
(***************************************************************************)

\* the data key is populated in the scope: get_key returns Some
Populated(d, k, S) ==
    LET r == get_key(d, k, S) IN r.ok /\ r.some

\* the populated keys of Pending under the prefix a commit promotes
PendingSettingsKeys(d) ==
    { k \in DataKeyTexts :
        Populated(d, k, "Pending") /\ StartsWith(k, SettingsPrefix) }

CommitSucceeded == last.op = "commit" /\ last.ok

\* C1: a successful commit returns exactly the set of the data keys that
\* were populated in Pending under the prefix "settings." right before it.
C1_CommitReturnsPendingSettingsKeys ==
    [][CommitSucceeded' => last'.ret = PendingSettingsKeys(store)]_vars

\* a commit has returned two promoted keys
C1_Witness ==
    CommitSucceeded /\ Cardinality(last.ret) = 2

\* C2 as stated: after a successful commit every key that was populated in
\* Pending, whatever its prefix, reads from Live the value it had in Pending.
C2_AllPendingKeysPromoted ==
    [][CommitSucceeded' =>
        \A k \in DataKeyTexts :
            Populated(store, k, "Pending") =>
                get_key(store', k, "Live") = get_key(store, k, "Pending")]_vars

\* C2 amended: after a successful commit every key that was populated in
\* Pending under the prefix "settings." reads from Live the value it had in
\* Pending.
C2_PendingSettingsKeysPromoted ==
    [][CommitSucceeded' =>
        \A k \in PendingSettingsKeys(store) :
            get_key(store', k, "Live") = get_key(store, k, "Pending")]_vars

\* a commit has promoted the hostname over a different live value or none
C2_Witness ==
    /\ CommitSucceeded
    /\ last.ret = {K_hostname}
    /\ Populated(store, K_hostname, "Live")

\* Pending holds no settings: nothing is listed under "settings." and
\* get_settings fails with MissingData
NoPendingSettings(d) ==
    /\ list_populated_keys(d, SettingsPrefix, "Pending") =
           [ok |-> TRUE, err |-> "", keys |-> {}]
    /\ get_settings(d, "Pending").err = "MissingData"

\* the call recorded in c may have written to Pending
WritesPending(c) ==
    \/ c.op = "set_settings"
    \/ c.op = "set_key" /\ (c.ok => c.scope = "Pending")

\* C3: after a successful commit Pending holds no populated key under
\* "settings." (the listing is empty and get_settings of Pending fails), and
\* this stays so until the next write to Pending.
C3_NoPendingSettingsAfterCommit ==
    [][/\ CommitSucceeded' => NoPendingSettings(store')
       /\ (NoPendingSettings(store) /\ ~WritesPending(last'))
              => NoPendingSettings(store')]_vars

\* a commit has emptied Pending and a later write to Live has left it empty
C3_Witness ==
    /\ last.op = "set_key" /\ last.ok /\ last.scope = "Live"
    /\ NoPendingSettings(store)
    /\ \E k \in DataKeyTexts : Populated(store, k, "Live")

\* the results of a read: Some(v), None, and the read error
ReadSome(v) == [ok |-> TRUE, err |-> "", some |-> TRUE, value |-> v]

ReadNone == [ok |-> TRUE, err |-> "", some |-> FALSE, value |-> <<>>]

ReadError == [ok |-> FALSE, err |-> "KeyRead", some |-> FALSE, value |-> <<>>]

\* the key of a field of Settings
FieldKey(f) == SettingsPrefix \o FieldName[f]

\* the step is a successful commit that follows a successful set_settings
SetThenCommit ==
    /\ last.op = "set_settings" /\ last.ok
    /\ last'.op = "commit" /\ last'.ok

\* after the step the field reads None from Pending and the encoding of v from
\* Live, and its key is in the set the commit returned
Promoted(f, v) ==
    /\ get_key(store', FieldKey(f), "Pending") = ReadNone
    /\ get_key(store', FieldKey(f), "Live") = ReadSome(serialize_scalar(v))
    /\ FieldKey(f) \in last'.ret

\* C4 as stated: set_settings(s) followed by a successful commit promotes
\* every set field of s, and every field absent in s keeps its Live value.
C4_SetThenCommitPromotesOnlyGiven ==
    [][SetThenCommit =>
        \A f \in SettingsFields :
            IF last.settings[f].some
            THEN Promoted(f, last.settings[f].value)
            ELSE get_key(store', FieldKey(f), "Live") =
                     get_key(store, FieldKey(f), "Live")]_vars

\* C4 amended: set_settings(s) followed by a successful commit promotes every
\* set field of s; a field absent in s keeps its Live value unless it was
\* already populated in Pending, in which case its pending value is promoted.
C4_SetThenCommitPromotesGivenAndPending ==
    [][SetThenCommit =>
        \A f \in SettingsFields :
            IF last.settings[f].some
            THEN Promoted(f, last.settings[f].value)
            ELSE get_key(store', FieldKey(f), "Live") =
                     IF Populated(store, FieldKey(f), "Pending")
                     THEN get_key(store, FieldKey(f), "Pending")
                     ELSE get_key(store, FieldKey(f), "Live")]_vars

\* a commit has promoted the timezone alone, next to a live hostname
C4_Witness ==
    /\ CommitSucceeded
    /\ last.ret = {K_timezone}
    /\ Populated(store, K_hostname, "Live")
    /\ get_key(store, K_timezone, "Pending") = ReadNone

\* every read of Live data and of metadata returns the same before and after
LiveReadsUnchanged ==
    /\ \A k \in DataKeyTexts :
           get_key(store', k, "Live") = get_key(store, k, "Live")
    /\ \A m \in MetaKeyTexts, k \in DataKeyTexts :
           get_metadata_raw(store', m, k) = get_metadata_raw(store, m, k)

\* C5: set_settings, whether it succeeds or fails, leaves the Live value of
\* every key and every metadata value as they were.
C5_SetSettingsLeavesLive ==
    [][last'.op = "set_settings" => LiveReadsUnchanged]_vars

\* set_settings has put a hostname in Pending that differs from the live one,
\* which has metadata
C5_Witness ==
    /\ last.op = "set_settings" /\ last.ok
    /\ Populated(store, K_hostname, "Live")
    /\ Populated(store, K_hostname, "Pending")
    /\ get_key(store, K_hostname, "Live") # get_key(store, K_hostname, "Pending")
    /\ \E m \in MetaKeyTexts : get_metadata_raw(store, m, K_hostname).some

\* the (metadata key, data key) pairs that have a metadata file in the scope
MetadataUnder(d, S) ==
    { x \in MetaKeyTexts \X DataKeyTexts :
        LET path == metadata_path(x[1], x[2], S)
        IN  path.ok /\ IsFile(d, S, path.comps) }

\* C6: no metadata entry ever exists under Pending; a successful
\* set_metadata(m, k, v) writes the entry of the Live tree that get_metadata
\* reads and leaves the Pending tree alone; commit leaves every metadata
\* value unchanged.
C6_MetadataLivesInLiveOnly ==
    [][/\ MetadataUnder(store', "Pending") = {}
       /\ (last'.op = "set_metadata" /\ last'.ok) =>
              /\ <<last'.meta, last'.key>> \in MetadataUnder(store', "Live")
              /\ get_metadata_raw(store', last'.meta, last'.key) =
                     ReadSome(last'.value)
              /\ dirs'["Pending"] = dirs["Pending"]
              /\ files'["Pending"] = files["Pending"]
       /\ last'.op = "commit" =>
              \A m \in MetaKeyTexts, k \in DataKeyTexts :
                  get_metadata_raw(store', m, k) =
                      get_metadata_raw(store, m, k)]_vars

\* a commit has promoted the hostname, which has metadata
C6_Witness ==
    /\ CommitSucceeded
    /\ K_hostname \in last.ret
    /\ MetadataUnder(store, "Live") # {}

\* C7: a data key populated in Live stays populated in Live after every
\* operation, successful or failed.
C7_LiveKeysAreNeverDeleted ==
    [][\A k \in DataKeyTexts :
           Populated(store, k, "Live") => Populated(store', k, "Live")]_vars

\* a commit has failed with keys populated in Live and in Pending
C7_Witness ==
    /\ last.op = "commit" /\ ~last.ok
    /\ \E k \in DataKeyTexts : Populated(store, k, "Live")
    /\ \E k \in DataKeyTexts : Populated(store, k, "Pending")

\* the prefixes the listings are asked for; most are no valid keys
PrefixTexts ==
    { <<>>, <<"s">>, <<"s", "e", "t", "t">>, K_settings, SettingsPrefix,
      SettingsPrefix \o <<"h">>, K_hostname, <<"s", "e", "r">>, <<"x">>,
      <<".">> }

\* C8: for every prefix, listing Pending when the pending tree does not exist
\* returns the empty set, listing Live when the live tree does not exist
\* returns a Corruption error.
C8_ListingOfMissingTree ==
    \A P \in PrefixTexts :
        /\ ~IsDir(store, "Pending", <<>>) =>
               list_populated_keys(store, P, "Pending") =
                   [ok |-> TRUE, err |-> "", keys |-> {}]
        /\ ~IsDir(store, "Live", <<>>) =>
               list_populated_keys(store, P, "Live") =
                   [ok |-> FALSE, err |-> "Corruption", keys |-> {}]

\* a commit has removed the pending tree while the live tree was never made
C8_Witness ==
    /\ CommitSucceeded
    /\ ~IsDir(store, "Pending", <<>>)
    /\ ~IsDir(store, "Live", <<>>)

\* C9: for every prefix and every scope whose tree exists, the listing
\* returns exactly the populated data keys whose text starts with the prefix
\* (so no metadata entry is ever listed).
C9_ListingIsPopulatedKeysWithPrefix ==
    \A P \in PrefixTexts, S \in Scopes :
        IsDir(store, S, <<>>) =>
            list_populated_keys(store, P, S) =
                [ok |-> TRUE, err |-> "",
                 keys |-> { k \in DataKeyTexts :
                              Populated(store, k, S) /\ StartsWith(k, P) }]

\* Live holds the hostname and a metadata entry about it
C9_Witness ==
    /\ Populated(store, K_hostname, "Live")
    /\ MetadataUnder(store, "Live") # {}
    /\ last.op = "set_metadata" /\ last.ok

SetKeySucceeded == last.op = "set_key" /\ last.ok

\* one key is a strict prefix of the other on segment boundaries
Nested(a, b) == SegmentPrefix(a, b) \/ SegmentPrefix(b, a)

\* C10 as stated: after a successful set_key(k, v, S), get_key(k, S) returns
\* Some(v) and get_key returns what it returned before for every other
\* (key, scope).
C10_SetKeyChangesOneRead ==
    [][SetKeySucceeded' =>
        /\ get_key(store', last'.key, last'.scope) = ReadSome(last'.value)
        /\ \A k \in DataKeyTexts, S \in Scopes :
               <<k, S>> # <<last'.key, last'.scope>> =>
                   get_key(store', k, S) = get_key(store, k, S)]_vars

\* C10 amended: after a successful set_key(k, v, S), get_key(k, S) returns
\* Some(v); get_key returns what it returned before for every key of the
\* other scope and for every other key of S that is not nested with k; a key
\* of S nested with k (a vs a.b) reads as before or fails with a read error.
C10_SetKeyChangesOneReadUnlessNested ==
    [][SetKeySucceeded' =>
        /\ get_key(store', last'.key, last'.scope) = ReadSome(last'.value)
        /\ \A k \in DataKeyTexts, S \in Scopes :
               <<k, S>> # <<last'.key, last'.scope>> =>
                   IF S = last'.scope /\ Nested(k, last'.key)
                   THEN get_key(store', k, S) \in
                            {get_key(store, k, S), ReadError}
                   ELSE get_key(store', k, S) = get_key(store, k, S)]_vars

\* set_key has written to Live a key that Pending holds with another value
C10_Witness ==
    /\ SetKeySucceeded /\ last.scope = "Live"
    /\ Populated(store, last.key, "Pending")
    /\ get_key(store, last.key, "Pending") # ReadSome(last.value)

\* the segments of a key
Segments(k) == Split(k, KEY_SEPARATOR)

\* the texts of the keys whose paths are examined, next to the client's keys
PathKeyTexts ==
    { <<"a", ".", "b", ".", "c">>, <<"a", "b", "c">>, <<"d", "-", "e", "_", "f">>,
      K_services_foo \o <<".", "r", "-", "c">> }

\* a path stays below the root of its scope: it has a component, and no
\* component is empty, ".", ".." or holds a separator
Descends(comps) ==
    /\ comps # <<>>
    /\ \A i \in 1..Len(comps) :
           /\ comps[i] \notin { <<>>, <<".">>, <<".", ".">> }
           /\ \A j \in 1..Len(comps[i]) : comps[i][j] # MAIN_SEPARATOR

\* C11: for every valid Data key k, Meta key m and scope S, data_path(k, S)
\* succeeds with the segments of k as the components below the scope's root,
\* metadata_path(m, k, S) succeeds with the same components except that the
\* last one has "." and m appended, and both paths are strict descendants of
\* the scope's root.
C11_PathsOfValidKeys ==
    \A k \in DataKeys(PathKeyTexts \cup client.keys), S \in Scopes :
        LET segs == Segments(k)
            n    == Len(segs)
        IN  /\ data_path(k, S) = [ok |-> TRUE, err |-> "", comps |-> segs]
            /\ Descends(segs)
            /\ \A m \in MetaKeys :
                   LET mp == metadata_path(m, k, S)
                   IN  /\ mp.ok /\ mp.err = ""
                       /\ Len(mp.comps) = n
                       /\ SubSeq(mp.comps, 1, n - 1) = SubSeq(segs, 1, n - 1)
                       /\ mp.comps[n] = segs[n] \o <<".">> \o m
                       /\ Descends(mp.comps)

\* set_key and set_metadata have put the hostname and its metadata at
\* live/settings/hostname and live/settings/hostname.md
C11_Witness ==
    /\ last.op = "set_metadata" /\ last.ok
    /\ last.key = K_hostname /\ last.meta = <<"m", "d">>
    /\ IsFile(store, "Live", <<K_settings, FieldName.hostname>>)
    /\ IsFile(store, "Live",
              <<K_settings, FieldName.hostname \o <<".", "m", "d">> >>)

(***************************************************************************)
(* Reads of the controller.  The specification QuerySpec reaches the      *)
(* stores the reads are examined in: its clients also store texts that are *)
(* no encoding of a string, which set_key takes like any other value.      *)
(***************************************************************************)

\* a text that is no JSON
NotJson == <<"x">>

\* the names of services and configuration files
N_foo == <<"f", "o", "o">>

N_bar == <<"b", "a", "r">>

N_baz == <<"b", "a", "z">>

\* a name that has the name foo as a textual prefix
N_foobar == N_foo \o N_bar

\* the literal prefix of the keys of the items of a kind
ItemPrefix ==
    [Service |-> ServicesPrefix, ConfigurationFile |-> ConfigurationFilesPrefix]

\* the key of the field f of the item of the kind with the name
ItemKey(kind, name, f) ==
    ItemPrefix[kind] \o name \o <<KEY_SEPARATOR>> \o ItemFieldName[kind][f]

\* the encoding of the list of file names a service field holds, and the
\* list it encodes
FileList == <<"[", "\"", "f", "\"", "]">>

Files == << <<"f">> >>

\* The clients of one run of QuerySpec: keys and targets as above, textkeys
\* the data keys, values the texts and scopes the scopes of the texts they
\* store verbatim (the metadata targets take the same texts)
QueryClients ==
    { [keys |-> {K_hostname, K_timezone}, targets |-> {},
       textkeys |-> {K_hostname}, values |-> {NotJson},
       scopes |-> Scopes],
      [keys |-> {K_hostname, K_settings}, targets |-> {K_hostname, K_settings},
       textkeys |-> {}, values |-> {NotJson}, scopes |-> Scopes],
      [keys |-> {}, targets |-> {},
       textkeys |-> { ItemKey("Service", n, f) :
                        n \in {N_foo, N_bar},
                        f \in {"configuration_files", "restart_commands"} }
                    \cup {ItemKey("Service", N_foobar, "configuration_files")},
       values |-> {FileList}, scopes |-> {"Pending"}],
      [keys |-> {}, targets |-> {},
       textkeys |-> { ItemKey("ConfigurationFile", N_foo, f) :
                        f \in {"path", "template_path"} },
       values |-> {DefaultValue}, scopes |-> {"Live"}] }

QueryInit ==
    /\ dirs = [S \in Scopes |-> {}]
    /\ files = [S \in Scopes |-> <<>>]
    /\ last = Call("new", TRUE, "", NoKey, NoKey, <<>>, DefaultSettings, {})
    /\ client \in QueryClients

SetKeyText ==
    \E k \in DataKeys(client.textkeys), v \in client.values,
       S \in client.scopes, fault \in Faults :
        LET r == set_key(store, k, v, S, fault)
        IN  /\ Becomes(r.d)
            /\ last' = Call("set_key", r.ok, S, k, NoKey, v, DefaultSettings, {})

SetMetadataText ==
    \E m \in MetaKeys, k \in DataKeys(client.targets), v \in client.values,
       fault \in Faults :
        LET r == set_metadata(store, m, k, v, fault)
        IN  /\ Becomes(r.d)
            /\ last' = Call("set_metadata", r.ok, "Live", k, m, v,
                            DefaultSettings, {})

QueryNext ==
    \/ SetKey
    \/ SetKeyText
    \/ SetMetadata
    \/ SetMetadataText
    \/ Commit

QuerySpec == QueryInit /\ [][QueryNext]_vars

\* the data keys the client of the run uses
ClientKeys == client.keys \cup client.textkeys

\* the populated keys of the scope whose text starts with the prefix
PopulatedUnder(d, S, prefix) ==
    { k \in ClientKeys : Populated(d, k, S) /\ StartsWith(k, prefix) }

FieldKeys == { FieldKey(f) : f \in SettingsFields }

\* every key is the key of a field of Settings and holds the encoding of a
\* string in the scope
Unflattens(d, S, keys) ==
    /\ keys \subseteq FieldKeys
    /\ \A k \in keys : get_key(d, k, S).value \in Values

\* s is the Settings unflattened from the keys: the fields of the keys are
\* set to the strings whose encoding the scope holds, the others are absent
IsUnflattened(s, d, S, keys) ==
    \A f \in SettingsFields :
        IF FieldKey(f) \in keys
        THEN /\ s[f].some
             /\ serialize_scalar(s[f].value) = get_key(d, FieldKey(f), S).value
        ELSE s[f] = None

\* C12 as stated: get_settings(scope) fails with MissingData when the scope
\* has no populated key whose text starts with "settings.", and otherwise
\* returns the Settings unflattened from all those keys.
C12_MissingDataIffNoSettingsKey ==
    \A S \in Scopes :
        LET keys == PopulatedUnder(store, S, SettingsPrefix)
            r    == get_settings(store, S)
        IN  IF keys = {} THEN ~r.ok /\ r.err = "MissingData"
            ELSE r.ok /\ IsUnflattened(r.value, store, S, keys)

\* C12 amended: get_settings(Live) fails with the datastore's error when the
\* live tree does not exist; otherwise get_settings(scope) fails with
\* MissingData exactly when the scope has no populated key whose text starts
\* with "settings."; otherwise it returns the Settings unflattened from all
\* those keys if each is a field of Settings holding the encoding of a
\* string, and fails with a Deserialization error if not.
C12_MissingDataIffListedEmpty ==
    \A S \in Scopes :
        LET keys == PopulatedUnder(store, S, SettingsPrefix)
            r    == get_settings(store, S)
        IN  IF S = "Live" /\ ~IsDir(store, "Live", <<>>)
            THEN ~r.ok /\ r.err = "DataStore"
            ELSE IF keys = {} THEN ~r.ok /\ r.err = "MissingData"
            ELSE IF Unflattens(store, S, keys)
            THEN r.ok /\ IsUnflattened(r.value, store, S, keys)
            ELSE ~r.ok /\ r.err = "Deserialization"

\* a commit has left Pending without settings and Live with the hostname
C12_Witness ==
    /\ CommitSucceeded
    /\ get_settings(store, "Pending").err = "MissingData"
    /\ get_settings(store, "Live").ok
    /\ get_settings(store, "Live").value.hostname.some
    /\ ~get_settings(store, "Live").value.timezone.some

\* C13 as stated: get_pending_settings succeeds in every reachable state, and
\* returns the default Settings when Pending has no settings keys.
C13_PendingSettingsAlwaysSucceeds ==
    LET keys == PopulatedUnder(store, "Pending", SettingsPrefix)
        r    == get_pending_settings(store)
    IN  /\ r.ok
        /\ keys = {} => r.value = DefaultSettings

\* C13 amended: get_pending_settings returns the default Settings when
\* Pending has no populated key under "settings." and never fails for lack of
\* data; it returns the Settings unflattened from those keys if each is a
\* field of Settings holding the encoding of a string, and fails with a
\* Deserialization error if not.
C13_PendingSettingsNeverMissing ==
    LET keys == PopulatedUnder(store, "Pending", SettingsPrefix)
        r    == get_pending_settings(store)
    IN  IF keys = {} THEN r.ok /\ r.value = DefaultSettings
        ELSE IF Unflattens(store, "Pending", keys)
        THEN r.ok /\ IsUnflattened(r.value, store, "Pending", keys)
        ELSE ~r.ok /\ r.err = "Deserialization"

\* a commit has removed the pending tree, and the pending settings are the
\* default Settings while Live has settings
C13_Witness ==
    /\ CommitSucceeded
    /\ ~IsDir(store, "Pending", <<>>)
    /\ get_pending_settings(store) =
           [ok |-> TRUE, err |-> "", value |-> DefaultSettings]
    /\ get_settings(store, "Live").ok

\* the prefixes get_settings_prefix is asked for
SettingsPrefixArgs ==
    { <<>>, <<"t", "i", "m">>, <<"t", "i", "m", "b", "i", "t", "s">>,
      <<"h">>, FieldName.hostname, FieldName.timezone \o <<".">>, <<".">> }

\* C14 as stated: get_settings_prefix(p, scope) returns the Settings
\* unflattened from the populated keys whose text starts with "settings." + p
\* (the default Settings when there is none) and no error.
C14_PrefixSelectsTextually ==
    \A p \in SettingsPrefixArgs, S \in Scopes :
        LET keys == PopulatedUnder(store, S, SettingsPrefix \o p)
            r    == get_settings_prefix(store, p, S)
        IN  r.ok /\ IsUnflattened(r.value, store, S, keys)

\* C14 amended: get_settings_prefix(p, Live) fails with the datastore's error
\* when the live tree does not exist; otherwise get_settings_prefix(p, scope)
\* returns the Settings unflattened from exactly the populated keys whose
\* text starts with "settings." + p (the default Settings when there is
\* none) if each is a field of Settings holding the encoding of a string, and
\* fails with a Deserialization error if not.
C14_PrefixSelectsTextuallyInExistingTree ==
    \A p \in SettingsPrefixArgs, S \in Scopes :
        LET keys == PopulatedUnder(store, S, SettingsPrefix \o p)
            r    == get_settings_prefix(store, p, S)
        IN  IF S = "Live" /\ ~IsDir(store, "Live", <<>>)
            THEN ~r.ok /\ r.err = "DataStore"
            ELSE IF Unflattens(store, S, keys)
            THEN r.ok /\ IsUnflattened(r.value, store, S, keys)
            ELSE ~r.ok /\ r.err = "Deserialization"

\* Live holds the hostname and the timezone: the prefix "tim" selects the
\* timezone alone, the prefix "timbits" nothing
C14_Witness ==
    /\ Populated(store, K_hostname, "Live")
    /\ Populated(store, K_timezone, "Live")
    /\ LET r == get_settings_prefix(store, <<"t", "i", "m">>, "Live")
       IN  r.ok /\ r.value.timezone.some /\ ~r.value.hostname.some
    /\ get_settings_prefix(store, <<"t", "i", "m", "b", "i", "t", "s">>, "Live") =
           [ok |-> TRUE, err |-> "", value |-> DefaultSettings]

\* a text that is no key
BadKeyText == K_settings \o <<".", ".">>

\* the sets of texts get_settings_keys and get_metadata are asked for
RequestSets ==
    { r \in SUBSET (ClientKeys \cup {BadKeyText}) : Cardinality(r) <= 2 }

\* C15 as stated, for requests of keys of fields of Settings that hold
\* encodings of strings where they are populated: get_settings_keys succeeds
\* and returns the Settings unflattened from the requested keys that are
\* populated in the scope.
C15_RequestedPopulatedKeys ==
    \A R \in RequestSets, S \in Scopes :
        LET got == { k \in R : Populated(store, k, S) }
        IN  (R \subseteq FieldKeys /\ Unflattens(store, S, got)) =>
                \A keys \in Orders(R) :
                    LET r == get_settings_keys(store, keys, S)
                    IN  r.ok /\ IsUnflattened(r.value, store, S, got)

\* C15 amended: get_settings_keys fails when a requested text is no valid key
\* (NewKey) or the read of a requested key fails (DataStore), as it does for
\* a key nested with a populated key; otherwise it returns the Settings
\* unflattened from exactly the requested keys that are populated in the
\* scope, skipping the others, if each of those is a field of Settings
\* holding the encoding of a string, and fails with a Deserialization error
\* if not.
C15_RequestedReadableKeys ==
    \A R \in RequestSets, S \in Scopes :
        LET invalid    == { k \in R : ~KeyNew("Data", k).ok }
            unreadable == { k \in R \ invalid : ~get_key(store, k, S).ok }
            got        == { k \in R : Populated(store, k, S) }
            errors     == (IF invalid = {} THEN {} ELSE {"NewKey"}) \cup
                          (IF unreadable = {} THEN {} ELSE {"DataStore"})
        IN  \A keys \in Orders(R) :
                LET r == get_settings_keys(store, keys, S)
                IN  IF errors # {} THEN ~r.ok /\ r.err \in errors
                    ELSE IF Unflattens(store, S, got)
                    THEN r.ok /\ IsUnflattened(r.value, store, S, got)
                    ELSE ~r.ok /\ r.err = "Deserialization"

\* Live holds the hostname and the timezone, Pending the timezone alone: the
\* request of the timezone leaves the live hostname out, the request of both
\* skips the hostname that Pending lacks
C15_Witness ==
    /\ Populated(store, K_hostname, "Live")
    /\ Populated(store, K_timezone, "Live")
    /\ Populated(store, K_timezone, "Pending")
    /\ get_key(store, K_hostname, "Pending") = ReadNone
    /\ LET r == get_settings_keys(store, <<K_timezone>>, "Live")
       IN  r.ok /\ r.value.timezone.some /\ ~r.value.hostname.some
    /\ LET r == get_settings_keys(store, <<K_hostname, K_timezone>>, "Pending")
       IN  r.ok /\ r.value.timezone.some /\ ~r.value.hostname.some

\* the sets of names the items are asked for
NameSets ==
    { {}, {N_foo}, {N_baz}, {N_foo, N_bar}, {N_foo, N_baz} }

\* the call of get_services_names or get_configuration_files_names
get_names(kind, d, names, committed) ==
    IF kind = "Service" THEN get_services_names(d, names, committed)
    ELSE get_configuration_files_names(d, names, committed)

\* some key is populated in the scope under the prefix of the item
Resolves(d, S, kind, name) ==
    PopulatedUnder(d, S, ItemPrefix[kind] \o name) # {}

\* the populated keys under the prefix of the item are those of the fields of
\* its record, each holding the encoding of a value of the field
Complete(d, S, kind, name) ==
    /\ PopulatedUnder(d, S, ItemPrefix[kind] \o name) =
           { ItemKey(kind, name, f) : f \in DOMAIN ItemFieldName[kind] }
    /\ \A f \in DOMAIN ItemFieldName[kind] :
           get_key(d, ItemKey(kind, name, f), S).value \in
               (IF kind = "Service" THEN {FileList} ELSE Values)

\* item is the record of the name: each field has the value whose encoding
\* the scope holds
IsItem(item, d, S, kind, name) ==
    /\ DOMAIN item = DOMAIN ItemFieldName[kind]
    /\ \A f \in DOMAIN ItemFieldName[kind] :
           LET held == get_key(d, ItemKey(kind, name, f), S).value
           IN  IF kind = "Service" THEN held = FileList /\ item[f] = Files
               ELSE serialize_scalar(item[f]) = held

\* C16 as stated: get_services_names and get_configuration_files_names
\* return a map with exactly one entry per requested name when every
\* requested name resolves to a populated key of the scope, and fail with a
\* ListKeys error when one does not.
C16_OneEntryPerNameOrListKeys ==
    \A kind \in DOMAIN ItemPrefix, N \in NameSets, S \in Scopes :
        \A names \in Orders(N) :
            LET r == get_names(kind, store, names, S)
            IN  IF \A n \in N : Resolves(store, S, kind, n)
                THEN r.ok /\ DOMAIN r.map = N
                ELSE ~r.ok /\ r.err = "ListKeys"

\* C16 amended: a request of no name returns the empty map; a request of
\* Live while the live tree does not exist fails with the datastore's error;
\* otherwise the call returns a map with exactly one entry per requested
\* name, the record of the name, when every requested name has the keys of
\* all the fields of its record populated with values that decode; it fails,
\* with no partial map, with ListKeys when a requested name resolves to no
\* populated key and with Deserialization when a requested name resolves to
\* keys that do not make a record, whichever name comes first.
C16_OneEntryPerCompleteName ==
    \A kind \in DOMAIN ItemPrefix, N \in NameSets, S \in Scopes :
        LET unresolved == { n \in N : ~Resolves(store, S, kind, n) }
            incomplete == { n \in N \ unresolved : ~Complete(store, S, kind, n) }
            errors     == (IF unresolved = {} THEN {} ELSE {"ListKeys"}) \cup
                          (IF incomplete = {} THEN {} ELSE {"Deserialization"})
        IN  \A names \in Orders(N) :
                LET r == get_names(kind, store, names, S)
                IN  IF N = {} THEN r = [ok |-> TRUE, err |-> "", map |-> <<>>]
                    ELSE IF S = "Live" /\ ~IsDir(store, "Live", <<>>)
                    THEN ~r.ok /\ r.err = "DataStore" /\ r.map = <<>>
                    ELSE IF errors # {}
                    THEN ~r.ok /\ r.err \in errors /\ r.map = <<>>
                    ELSE /\ r.ok /\ DOMAIN r.map = N
                         /\ \A n \in N : IsItem(r.map[n], store, S, kind, n)

\* Pending holds the whole records of the services foo and bar: the request
\* of both returns two entries, the request of foo and baz fails
C16_Witness ==
    /\ Complete(store, "Pending", "Service", N_foo)
    /\ Complete(store, "Pending", "Service", N_bar)
    /\ LET r == get_services_names(store, <<N_foo, N_bar>>, "Pending")
       IN  r.ok /\ DOMAIN r.map = {N_foo, N_bar}
    /\ get_services_names(store, <<N_foo, N_baz>>, "Pending").err = "ListKeys"

\* the data key has the metadata: the read of it returns a text
HasMetadata(d, m, k) ==
    LET r == get_metadata_raw(d, m, k) IN r.ok /\ r.some

\* map holds, for exactly the keys, the string whose encoding is the
\* metadata value of the key
IsMetadataOf(map, d, m, keys) ==
    /\ DOMAIN map = keys
    /\ \A k \in keys :
           /\ map[k].t = "string"
           /\ serialize_scalar(map[k].s) = get_metadata_raw(d, m, k).value

\* C17 as stated: get_metadata(meta, data_keys) never fails as a whole; a
\* requested text that is no valid key, a key without the metadata, a key
\* whose metadata cannot be read and a key whose stored metadata does not
\* decode are left out, and every other requested key appears with its
\* decoded value.
C17_EveryFailureSkipsTheKey ==
    \A m \in MetaKeys, R \in RequestSets :
        LET found == { k \in R : /\ KeyNew("Data", k).ok
                                 /\ HasMetadata(store, m, k)
                                 /\ get_metadata_raw(store, m, k).value \in Values }
        IN  \A data_key_strs \in Orders(R) :
                LET r == controller_get_metadata(store, m, data_key_strs)
                IN  r.ok /\ IsMetadataOf(r.map, store, m, found)

\* C17 amended: a key without the metadata and a key whose metadata cannot be
\* read are left out without failing the call, and every other requested key
\* appears with its decoded value; a requested text that is no valid key
\* fails the whole call with NewKey, and a stored metadata value that does
\* not decode fails it with InvalidMetadata.
C17_MissingAndUnreadableSkipTheKey ==
    \A m \in MetaKeys, R \in RequestSets :
        LET invalid     == { k \in R : ~KeyNew("Data", k).ok }
            has         == { k \in R \ invalid : HasMetadata(store, m, k) }
            undecodable == { k \in has :
                               get_metadata_raw(store, m, k).value \notin Values }
            errors      == (IF invalid = {} THEN {} ELSE {"NewKey"}) \cup
                           (IF undecodable = {} THEN {}
                            ELSE {"InvalidMetadata"})
        IN  \A data_key_strs \in Orders(R) :
                LET r == controller_get_metadata(store, m, data_key_strs)
                IN  IF errors # {} THEN ~r.ok /\ r.err \in errors
                    ELSE r.ok /\ IsMetadataOf(r.map, store, m, has)

\* Live holds the key settings as a file, with metadata: the metadata of
\* settings.hostname cannot be read, and the request of both keys returns
\* the entry of settings alone
C17_Witness ==
    /\ IsFile(store, "Live", <<K_settings>>)
    /\ HasMetadata(store, <<"m", "d">>, K_settings)
    /\ get_metadata_raw(store, <<"m", "d">>, K_hostname) = ReadError
    /\ LET r == controller_get_metadata(store, <<"m", "d">>,
                                        <<K_hostname, K_settings>>)
       IN  r.ok /\ DOMAIN r.map = {K_settings}

(***************************************************************************)
(* The set of configuration file names of a map of services                *)
(* (thar-be-settings/src/config.rs)                                        *)
(***************************************************************************)

\* model::Service
Service(configuration_files, restart_commands) ==
    [configuration_files |-> configuration_files,
     restart_commands |-> restart_commands]

\* the inner loop of get_config_file_names: the files of one service, from
\* the i-th on, inserted in the set
RECURSIVE insert_files(_, _, _)
insert_files(config_file_set, configuration_files, i) ==
    IF i > Len(configuration_files) THEN config_file_set
    ELSE insert_files(config_file_set \cup {configuration_files[i]},
                      configuration_files, i + 1)

\* the outer loop of get_config_file_names: the services from the i-th on,
\* in the order values() yields them
RECURSIVE get_config_file_names_from(_, _, _, _)
get_config_file_names_from(services, values, i, config_file_set) ==
    IF i > Len(values) THEN config_file_set
    ELSE get_config_file_names_from(
             services, values, i + 1,
             insert_files(config_file_set,
                          services[values[i]].configuration_files, 1))

\* get_config_file_names inserting the first file of each service only
get_config_file_names_first(services, values) ==
    { services[n].configuration_files[1] :
        n \in { m \in DOMAIN services :
                  services[m].configuration_files # <<>> } }

\* get_config_file_names: values is the order in which the map yields its
\* services
get_config_file_names(services, values) ==
    get_config_file_names_from(services, values, 1, {})

(***************************************************************************)
(* Templates and their rendering (the handlebars registry the materializer *)
(* is given).  A template is a sequence of pieces: a literal text, a       *)
(* variable named by its path in the context, or a helper that fails.  A   *)
(* context is a tree: a leaf holds a text, a node maps names to trees.     *)
(***************************************************************************)

TextPiece(s) == [t |-> "text", s |-> s, path |-> <<>>]

VarPiece(path) == [t |-> "var", s |-> <<>>, path |-> path]

FailPiece == [t |-> "fail", s |-> <<>>, path |-> <<>>]

Leaf(s) == [leaf |-> TRUE, s |-> s, kids |-> <<>>]

Node(kids) == [leaf |-> FALSE, s |-> <<>>, kids |-> kids]

\* the tree a Settings serializes to: its set fields under their names
SettingsTree(settings) ==
    Node([n \in { FieldName[f] : f \in { g \in SettingsFields : settings[g].some } }
            |-> Leaf(settings[CHOOSE f \in SettingsFields : FieldName[f] = n].value)])

\* the text a variable renders to: the leaf at the path, nothing when the
\* context has no such leaf
RECURSIVE Lookup(_, _)
Lookup(tree, path) ==
    IF path = <<>> THEN (IF tree.leaf THEN tree.s ELSE <<>>)
    ELSE IF ~tree.leaf /\ Head(path) \in DOMAIN tree.kids
    THEN Lookup(tree.kids[Head(path)], Tail(path))
    ELSE <<>>

\* the rendering of the pieces from the i-th on, appended to out
RECURSIVE render_template(_, _, _, _)
render_template(template, context, i, out) ==
    IF i > Len(template) THEN [ok |-> TRUE, text |-> out]
    ELSE IF template[i].t = "fail" THEN [ok |-> FALSE, text |-> <<>>]
    ELSE render_template(template, context, i + 1,
             out \o (IF template[i].t = "text" THEN template[i].s
                     ELSE Lookup(context, template[i].path)))

\* Handlebars::render(name, data): the template registered under the name,
\* rendered against the data
registry_render(registry, name, data) ==
    IF name \notin DOMAIN registry THEN [ok |-> FALSE, text |-> <<>>]
    ELSE render_template(registry[name], data, 1, <<>>)

\* the registry the caller builds for the descriptors: each descriptor's
\* name registered with the template file at its template_path
build_template_registry(config_files, template_files) ==
    [name \in DOMAIN config_files |->
        template_files[config_files[name].template_path]]

\* model::ConfigurationFile
ConfigurationFile(path, template_path) ==
    [path |-> path, template_path |-> template_path]

\* RenderedConfigFile::new
RenderedConfigFile(path, rendered) == [path |-> path, rendered |-> rendered]

\* the result of render_config_files
RenderOk(rendered_configs) ==
    [ok |-> TRUE, err |-> "", template |-> <<>>, rendered |-> rendered_configs]

RenderErr(name) ==
    [ok |-> FALSE, err |-> "TemplateRender", template |-> name, rendered |-> <<>>]

\* the loop of render_config_files: the descriptors from the i-th on in the
\* order the map yields them, rendered against the data
RECURSIVE render_config_files_from(_, _, _, _, _, _)
render_config_files_from(registry, config_files, data, names, i, rendered_configs) ==
    IF i > Len(names) THEN RenderOk(rendered_configs)
    ELSE LET name     == names[i]
             rendered == registry_render(registry, name, data)
         IN  IF ~rendered.ok THEN RenderErr(name)
             ELSE render_config_files_from(
                      registry, config_files, data, names, i + 1,
                      Append(rendered_configs,
                             RenderedConfigFile(config_files[name].path,
                                                rendered.text)))

\* render_config_files rendering against the bare Settings
render_config_files_unwrapped(registry, config_files, settings, names) ==
    render_config_files_from(registry, config_files, SettingsTree(settings),
                             names, 1, <<>>)

\* render_config_files leaving out the descriptors whose template fails
render_config_files_skipping(registry, config_files, settings, names) ==
    render_config_files_from(
        registry, config_files, Node((K_settings :> SettingsTree(settings))),
        SelectSeq(names, LAMBDA n :
            registry_render(registry, n,
                Node((K_settings :> SettingsTree(settings)))).ok),
        1, <<>>)

\* render_config_files: names is the order in which the map of descriptors
\* yields them
render_config_files(registry, config_files, settings, names) ==
    LET wrapped_template_keys == Node((K_settings :> SettingsTree(settings)))
    IN  render_config_files_from(registry, config_files, wrapped_template_keys,
                                 names, 1, <<>>)

(***************************************************************************)
(* The writing of the rendered files.  A disk is [dirs, files]: the set of *)
(* its directories and the map of its regular files to their bytes, each   *)
(* named by the components of its path (<<>> is the root).                 *)
(***************************************************************************)

\* The faults the operating system can inject into one write_to_disk:
\* "directory" makes create_dir_all fail, "file" makes fs::write fail before
\* it touches the file, "truncated" makes it fail after it emptied the file
WriteFaults == {"none", "directory", "file", "truncated"}

WriteOk(disk) == [ok |-> TRUE, err |-> "", pathtype |-> "", disk |-> disk]

WriteErr(pathtype, disk) ==
    [ok |-> FALSE, err |-> "TemplateWrite", pathtype |-> pathtype, disk |-> disk]

\* the disk with the file holding the bytes
WithFile(disk, path, bytes) ==
    [disk EXCEPT !.files = [q \in DOMAIN @ \cup {path} |->
                               IF q = path THEN bytes ELSE @[q]]]

\* write_to_disk keeping the content of a file that exists
write_to_disk_keeping(disk, cfg, fault) ==
    LET path    == Components(cfg.path)
        dirname == SubSeq(path, 1, Len(path) - 1)
        made    == IF path = <<>> THEN disk
                   ELSE [disk EXCEPT !.dirs = @ \cup Prefixes(dirname)]
    IN  IF /\ path # <<>>
           /\ \/ fault = "directory"
              \/ \E q \in Prefixes(dirname) : q \in DOMAIN disk.files
        THEN WriteErr("directory", disk)
        ELSE IF path \in made.dirs \/ fault \in {"file", "truncated"}
        THEN WriteErr("file", made)
        ELSE IF path \in DOMAIN made.files THEN WriteOk(made)
        ELSE WriteOk(WithFile(made, path, cfg.rendered))

\* RenderedConfigFile::write_to_disk
write_to_disk(disk, cfg, fault) ==
    LET path    == Components(cfg.path)
        dirname == SubSeq(path, 1, Len(path) - 1)
        made    == IF path = <<>> THEN disk
                   ELSE [disk EXCEPT !.dirs = @ \cup Prefixes(dirname)]
    IN  IF /\ path # <<>>
           /\ \/ fault = "directory"
              \/ \E q \in Prefixes(dirname) : q \in DOMAIN disk.files
        THEN WriteErr("directory", disk)
        ELSE IF path \in made.dirs \/ fault = "file"
        THEN WriteErr("file", made)
        ELSE IF fault = "truncated"
        THEN WriteErr("file", WithFile(made, path, <<>>))
        ELSE WriteOk(WithFile(made, path, cfg.rendered))

\* write_config_files: the rendered files from the i-th on are written in
\* the order of the list; the write number faultAt (0: none) suffers the
\* injected fault.  failedAt is the number of the write that failed.
RECURSIVE write_config_files_from(_, _, _, _, _)
write_config_files_from(disk, rendered_config, i, faultAt, fault) ==
    IF i > Len(rendered_config)
    THEN [ok |-> TRUE, err |-> "", pathtype |-> "", failedAt |-> 0, disk |-> disk]
    ELSE LET r == write_to_disk(disk, rendered_config[i],
                                IF i = faultAt THEN fault ELSE "none")
         IN  IF ~r.ok
             THEN [ok |-> FALSE, err |-> r.err, pathtype |-> r.pathtype,
                   failedAt |-> i, disk |-> r.disk]
             ELSE write_config_files_from(r.disk, rendered_config, i + 1,
                                          faultAt, fault)

write_config_files(disk, rendered_config, faultAt, fault) ==
    write_config_files_from(disk, rendered_config, 1, faultAt, fault)

(***************************************************************************)
(* The functions of the inputs: settings_input applied to request bodies   *)
(* and get_config_file_names applied to maps of services                   *)
(***************************************************************************)

\* the text of a member of a JSON object
Member(name, text) == serialize_scalar(name) \o <<":">> \o text

\* the text of the JSON object of the members
Object(members) == <<"{">> \o Join(members, ",") \o <<"}">>

NullText == <<"n", "u", "l", "l">>

\* the JSON objects that encode the Settings s: its set fields as members
\* in any order, each absent field left out or null
SettingsTexts(s) ==
    { Object(SelectSeq(
          [i \in 1..Len(o) |->
              IF s[o[i]].some
              THEN Member(FieldName[o[i]], serialize_scalar(s[o[i]].value))
              ELSE IF o[i] \in nulls THEN Member(FieldName[o[i]], NullText)
              ELSE <<>>],
          LAMBDA t : t # <<>>)) :
        o \in Orders(SettingsFields),
        nulls \in SUBSET { f \in SettingsFields : ~s[f].some } }

\* the object J under an outer "settings" layer
Wrapped(J) == Object(<< Member(K_settings, J) >>)

N_x == <<"x">>

T_h == serialize_scalar(<<"h">>)

T_5 == <<"5">>

\* texts that are no JSON
NotJsonTexts ==
    { <<>>, <<"x">>, <<"{">>, <<"\"", "h">>, <<"{", "}", "}">>,
      <<"{">> \o Member(K_settings, <<"{", "}">>),
      <<"{">> \o Member(FieldName.hostname, T_h) }

\* JSON texts that are no object
NotObjectTexts == { T_5, T_h, NullText, <<"[", "]">> }

\* JSON objects that are no Settings and have no "settings" member
NoSettingsTexts ==
    { Object(<< Member(N_x, T_h) >>),
      Object(<< Member(FieldName.hostname, T_5) >>),
      Object(<< Member(FieldName.hostname, T_h), Member(N_x, T_h) >>),
      Object(<< Member(FieldName.hostname, T_h),
                Member(FieldName.hostname, T_h) >>) }

\* JSON objects whose "settings" member is no Settings
InvalidSettingsTexts ==
    { Object(<< Member(K_settings, T_5) >>),
      Object(<< Member(K_settings, NullText) >>),
      Object(<< Member(K_settings, <<"[", "]">>) >>),
      Object(<< Member(K_settings, Object(<< Member(N_x, T_h) >>)) >>),
      Object(<< Member(K_settings,
                       Object(<< Member(FieldName.hostname, T_5) >>)) >>),
      Object(<< Member(K_settings, Wrapped(<<"{", "}">>)) >>),
      Object(<< Member(N_x, T_h), Member(K_settings, T_h) >>) }

\* the request bodies
InputTexts ==
    UNION { SettingsTexts(s) \cup { Wrapped(J) : J \in SettingsTexts(s) } :
              s \in Settings }
    \cup NotJsonTexts \cup NotObjectTexts \cup NoSettingsTexts
    \cup InvalidSettingsTexts

MaxFiles == 2

FileNames == { <<"f", "i", "l", "e", "1">>, <<"f", "i", "l", "e", "2">> }

\* the lists of at most MaxFiles file names
FileLists == UNION { [1..n -> FileNames] : n \in 0..MaxFiles }

RestartCommands == << <<"e", "c", "h", "o", " ", "h", "i">> >>

\* the maps of services
ServicesMaps ==
    UNION { [names -> { Service(l, RestartCommands) : l \in FileLists }] :
              names \in SUBSET {N_foo, N_bar} }

NoServices == [n \in {} |-> Service(<<>>, <<>>)]

\* what the functions are applied to
Inputs ==
    { [op |-> "settings_input", input |-> t, services |-> NoServices] :
        t \in InputTexts }
    \cup { [op |-> "get_config_file_names", input |-> <<>>, services |-> m] :
             m \in ServicesMaps }

InputInit ==
    /\ dirs = [S \in Scopes |-> {}]
    /\ files = [S \in Scopes |-> <<>>]
    /\ last = [op |-> "new"]
    /\ client \in Inputs

SettingsInput ==
    /\ client.op = "settings_input"
    /\ last' = [op |-> "settings_input", ret |-> settings_input(client.input)]
    /\ UNCHANGED <<dirs, files, client>>

GetConfigFileNames ==
    /\ client.op = "get_config_file_names"
    /\ \E values \in Orders(DOMAIN client.services) :
           last' = [op |-> "get_config_file_names",
                    ret |-> get_config_file_names(client.services, values)]
    /\ UNCHANGED <<dirs, files, client>>

InputNext == SettingsInput \/ GetConfigFileNames

InputSpec == InputInit /\ [][InputNext]_vars

\* C18: settings_input applied to a JSON object J that encodes a Settings,
\* and applied to the object {"settings": J}, returns that Settings in both
\* cases.
C18_WrappedAndPlainDecodeAlike ==
    last.op = "settings_input" =>
        \A s \in Settings :
            client.input \in SettingsTexts(s)
                             \cup { Wrapped(J) : J \in SettingsTexts(s) }
            => last.ret = InputOk(s)

\* settings_input was applied to a wrapped object with a set field and
\* returned the Settings
C18_Witness ==
    /\ last.op = "settings_input"
    /\ \E s \in Settings :
           /\ s.hostname.some
           /\ client.input \in { Wrapped(J) : J \in SettingsTexts(s) }
           /\ last.ret = InputOk(s)

\* C19: an input that decodes neither directly nor after unwrapping fails
\* with the first failing step: InvalidJson when the text is no JSON,
\* NotJsonObject when the JSON is no object, NoSettings when the object has
\* no "settings" member, InvalidSettings when that member is no Settings.
C19_FirstFailingStep ==
    last.op = "settings_input" =>
        /\ client.input \in NotJsonTexts => last.ret = InputErr("InvalidJson")
        /\ client.input \in NotObjectTexts
               => last.ret = InputErr("NotJsonObject")
        /\ client.input \in NoSettingsTexts
               => last.ret = InputErr("NoSettings")
        /\ client.input \in InvalidSettingsTexts
               => last.ret = InputErr("InvalidSettings")

\* settings_input was applied to an object without a "settings" member and
\* failed with NoSettings
C19_Witness ==
    /\ last.op = "settings_input"
    /\ client.input \in NoSettingsTexts
    /\ last.ret = InputErr("NoSettings")

\* C20: a name is in the result of get_config_file_names exactly when at
\* least one service of the map lists it; the result is a set, so a name
\* that several services list appears once.
C20_UnionOfListedNames ==
    last.op = "get_config_file_names" =>
        /\ \A name \in FileNames :
               name \in last.ret <=>
                   \E n \in DOMAIN client.services :
                       \E i \in DOMAIN client.services[n].configuration_files :
                           client.services[n].configuration_files[i] = name
        /\ last.ret \subseteq FileNames

\* two services list the same name, one of them after another name, and the
\* result holds the two names
C20_Witness ==
    /\ last.op = "get_config_file_names"
    /\ DOMAIN client.services = {N_foo, N_bar}
    /\ \E f1, f2 \in FileNames :
           /\ f1 # f2
           /\ client.services[N_foo].configuration_files = <<f1>>
           /\ client.services[N_bar].configuration_files = <<f1, f2>>
           /\ last.ret = {f1, f2}

\* the populated keys of the scope that belong to the item of the name:
\* those of the form <root>.<name>.<field>
KeysOfItem(d, S, kind, name) ==
    PopulatedUnder(d, S, ItemPrefix[kind] \o name \o <<KEY_SEPARATOR>>)

\* the store without the files of the data keys of the scope
WithoutKeys(d, S, keys) ==
    LET gone == { data_path_cached(k, S).comps : k \in keys }
    IN  [d EXCEPT !.files[S] = [p \in DOMAIN @ \ gone |-> @[p]]]

\* C26: the result for a requested name n is that of the store without the
\* populated keys that have <root>n as a textual prefix and are no key of
\* the item n (such as services.foobar.* for foo); and a name n with no
\* populated key <root>.n.<field> fails the at-least-one-key check with
\* ListKeys (in a scope whose tree exists).
C26_OnlyNamedChildren ==
    \A kind \in DOMAIN ItemPrefix, n \in {N_foo, N_bar}, S \in Scopes :
        LET own     == KeysOfItem(store, S, kind, n)
            foreign == PopulatedUnder(store, S, ItemPrefix[kind] \o n) \ own
            r       == get_names(kind, store, <<n>>, S)
        IN  IsDir(store, S, <<>>) =>
                /\ r = get_names(kind, WithoutKeys(store, S, foreign), <<n>>, S)
                /\ own = {} => ~r.ok /\ r.err = "ListKeys"

(***************************************************************************)
(* Commits that fail, commits of nothing, and what a commit changes        *)
(***************************************************************************)

\* The store under its own operations alone: every write of the callers
\* above the store (set_settings, populate_default) is a sequence of set_key
\* and set_metadata
StoreNext ==
    \/ SetKey
    \/ SetMetadata
    \/ Commit

StoreSpec == Init /\ [][StoreNext]_vars

\* the pending tree of a store
PendingOf(d) == [dirs |-> d.dirs["Pending"], files |-> d.files["Pending"]]

\* the live tree of a store
LiveOf(d) == [dirs |-> d.dirs["Live"], files |-> d.files["Live"]]

\* the pending data a commit of the store copies (empty when it cannot be
\* read)
PendingData(d) == get_prefix(d, SettingsPrefix, "Pending").map

\* C22: a commit that fails during the copy of the pending keys to Live (at
\* whichever write, in whichever order) reports an error and leaves the
\* pending tree as it was; a later commit of the store it leaves has the
\* outcome, the return set and the final store of a commit that was never
\* interrupted.
C22_FailedCopyKeepsPending ==
    \A order \in PairOrders(PendingData(store)) :
        \A i \in 1..Len(order) :
            LET r == commit(store, order, i, "io", FALSE)
            IN  /\ ~r.ok
                /\ PendingOf(r.d) = PendingOf(store)
                /\ \A again \in PairOrders(PendingData(store)) :
                       LET a == commit(store, again, 0, "none", FALSE)
                           b == commit(r.d, again, 0, "none", FALSE)
                       IN  /\ a.ok = b.ok
                           /\ a.ret = b.ret
                           /\ a.ok => a.d = b.d

\* a commit of two pending keys has failed after it copied one of them: Live
\* holds the pending hostname and not yet the timezone, Pending holds both
C22_Witness ==
    /\ last.op = "commit" /\ ~last.ok
    /\ DOMAIN PendingData(store) = {K_hostname, K_timezone}
    /\ get_key(store, K_hostname, "Live") = get_key(store, K_hostname, "Pending")
    /\ get_key(store, K_timezone, "Live") = ReadNone

\* C23: a commit of a store in which nothing is pending (no key is
\* populated in Pending under "settings.") succeeds, returns the empty set
\* and leaves Live unchanged.
C23_CommitOfNothingSucceeds ==
    list_populated_keys(store, SettingsPrefix, "Pending") =
        [ok |-> TRUE, err |-> "", keys |-> {}]
    => LET r == commit(store, <<>>, 0, "none", FALSE)
       IN  r.ok /\ r.ret = {} /\ LiveOf(r.d) = LiveOf(store)

\* C25: whatever the iteration order and whether it succeeds or fails at
\* some write or at the removal of the pending tree, a commit leaves every
\* data key that Live holds and that is not populated in Pending under
\* "settings." with the value it had.
C25_CommitChangesPromotedKeysOnly ==
    \A order \in PairOrders(PendingData(store)),
       f \in FaultChoices(Cardinality(DOMAIN PendingData(store))),
       rmFault \in BOOLEAN :
        LET r == commit(store, order, f[1], f[2], rmFault)
        IN  \A k \in DataKeyTexts \ DOMAIN PendingData(store) :
                Populated(store, k, "Live") =>
                    get_key(r.d, k, "Live") = get_key(store, k, "Live")

\* a commit has promoted the hostname while Live holds the service key,
\* which the commit does not promote
C25_Witness ==
    /\ last.op = "commit" /\ last.ok /\ last.ret = {K_hostname}
    /\ Populated(store, K_services_foo, "Live")
    /\ Populated(store, K_hostname, "Live")

(***************************************************************************)
(* Keys that are segment-prefixes of one another                           *)
(***************************************************************************)

\* the populated keys of the scope, as list_populated_keys reports them
PopulatedKeys(d, S) == list_populated_keys(d, <<>>, S).keys

\* no key of the set is a strict segment-prefix of another
PrefixFree(keys) == \A a, b \in keys : ~SegmentPrefix(a, b)

\* set_key of a key nested with a populated key of the scope fails with the
\* IO error and changes nothing
ConflictingSetKeyFails(d) ==
    \A S \in Scopes, k \in DataKeys(DataKeyTexts), v \in Values,
       fault \in Faults :
        (\E p \in PopulatedKeys(d, S) : Nested(k, p)) =>
            LET r == set_key(d, k, v, S, fault)
            IN  ~r.ok /\ r.err = "Io" /\ r.d = d

\* some populated key of Pending is nested with a populated key of Live
PendingConflictsWithLive(d) ==
    \E k \in PopulatedKeys(d, "Pending"), p \in PopulatedKeys(d, "Live") :
        Nested(k, p)

\* some populated key of Pending that a commit promotes is nested with a
\* populated key of Live
PendingSettingsConflictWithLive(d) ==
    \E k \in PopulatedKeys(d, "Pending"), p \in PopulatedKeys(d, "Live") :
        StartsWith(k, SettingsPrefix) /\ Nested(k, p)

\* every commit of the store fails and leaves Pending as it was
EveryCommitFails(d) ==
    \A order \in PairOrders(PendingData(d)),
       f \in FaultChoices(Cardinality(DOMAIN PendingData(d))),
       rmFault \in BOOLEAN :
        LET r == commit(d, order, f[1], f[2], rmFault)
        IN  ~r.ok /\ PendingOf(r.d) = PendingOf(d)

\* C30 as stated: the populated keys of each scope are prefix-free on
\* segment boundaries; set_key of a key nested with a populated key of the
\* scope fails with the IO error and leaves the store unchanged; and while
\* some pending key is nested with a Live key, every commit fails and leaves
\* Pending as it was.
C30_ConflictingKeysAreRefused ==
    /\ \A S \in Scopes : PrefixFree(PopulatedKeys(store, S))
    /\ ConflictingSetKeyFails(store)
    /\ PendingConflictsWithLive(store) => EveryCommitFails(store)

\* C30 (amended): the populated keys of each scope are prefix-free on
\* segment boundaries; set_key of a key nested with a populated key of the
\* scope fails with the IO error and leaves the store unchanged; and while
\* some pending key under "settings." is nested with a Live key, every
\* commit fails and leaves Pending as it was.
C30_ConflictingSettingsKeysAreRefused ==
    /\ \A S \in Scopes : PrefixFree(PopulatedKeys(store, S))
    /\ ConflictingSetKeyFails(store)
    /\ PendingSettingsConflictWithLive(store) => EveryCommitFails(store)

\* a commit has failed while the pending hostname is nested with the Live
\* key "settings"
C30_Witness ==
    /\ last.op = "commit" /\ ~last.ok
    /\ Populated(store, K_hostname, "Pending")
    /\ Populated(store, K_settings, "Live")
    /\ PendingSettingsConflictWithLive(store)

(***************************************************************************)
(* Writes to Pending between commits.  In WriteSpec the client keeps, for  *)
(* each of its keys, whether it wrote no, one or several values to        *)
(* Pending since the last successful commit, and the value of its last     *)
(* write.                                                                  *)
(***************************************************************************)

NotWritten == [writes |-> 0, lastv |-> <<>>]

WriteKeys == {K_hostname, K_timezone}

WriteInit ==
    /\ dirs = [S \in Scopes |-> {}]
    /\ files = [S \in Scopes |-> <<>>]
    /\ last = [op |-> "new", ok |-> TRUE, ret |-> {},
               written |-> [k \in WriteKeys |-> NotWritten]]
    /\ client = [keys |-> WriteKeys, written |-> [k \in WriteKeys |-> NotWritten]]

\* set_key(k, v, Pending)
WritePending ==
    \E k \in DataKeys(client.keys), v \in Values, fault \in Faults :
        LET r == set_key(store, k, v, "Pending", fault)
        IN  /\ dirs' = r.d.dirs
            /\ files' = r.d.files
            /\ client' = IF r.ok
                         THEN [client EXCEPT
                                 !.written[k] =
                                     [writes |-> IF @.writes = 0 THEN 1
                                                 ELSE IF @.lastv = v
                                                 THEN @.writes
                                                 ELSE 2,
                                      lastv |-> v]]
                         ELSE client
            /\ last' = [op |-> "set_key", ok |-> r.ok, ret |-> {},
                        written |-> [x \in WriteKeys |-> NotWritten]]

\* commit(): last keeps what had been written to Pending before it
CommitWritten ==
    \E order \in PairOrders(PendingData(store)),
       f \in FaultChoices(Cardinality(DOMAIN PendingData(store))),
       rmFault \in BOOLEAN :
        LET r == controller_commit(store, order, f[1], f[2], rmFault)
        IN  /\ dirs' = r.d.dirs
            /\ files' = r.d.files
            /\ client' = IF r.ok
                         THEN [client EXCEPT
                                 !.written = [k \in WriteKeys |-> NotWritten]]
                         ELSE client
            /\ last' = [op |-> "commit", ok |-> r.ok, ret |-> r.ret,
                        written |-> IF r.ok THEN client.written
                                    ELSE [k \in WriteKeys |-> NotWritten]]

WriteNext == WritePending \/ CommitWritten

WriteSpec == WriteInit /\ [][WriteNext]_vars

\* C24: a successful commit promotes, for every settings key written to
\* Pending since the previous successful commit, the value of the last of
\* these writes, and returns the key in its set; before the commit Pending
\* reads the value of the last write.
C24_LastWriteWins ==
    /\ \A k \in WriteKeys :
           client.written[k].writes > 0 =>
               get_key(store, k, "Pending") = ReadSome(client.written[k].lastv)
    /\ (last.op = "commit" /\ last.ok) =>
           /\ \A k \in WriteKeys :
                  last.written[k].writes > 0 =>
                      /\ k \in last.ret
                      /\ get_key(store, k, "Live") =
                             ReadSome(last.written[k].lastv)
           /\ last.ret = { k \in WriteKeys : last.written[k].writes > 0 }

\* a commit has promoted the hostname after writes of two different values
\* to Pending: Live reads the value of the last of them
C24_Witness ==
    /\ last.op = "commit" /\ last.ok
    /\ last.written[K_hostname].writes = 2
    /\ last.ret = {K_hostname}
    /\ get_key(store, K_hostname, "Live") =
           ReadSome(last.written[K_hostname].lastv)

(***************************************************************************)
(* The defaults loader applied to documents whose metadata records name    *)
(* their metadata key by any text                                          *)
(***************************************************************************)

MD_dotted == <<"m", ".", "d">>

MD_empty_segment == <<"m", ".", ".">>

\* The clients of one run of DefaultsSpec: mds are the texts the metadata
\* records of the defaults document give as md
DefaultsClients ==
    { [keys |-> {K_hostname}, targets |-> {K_hostname},
       mds |-> {<<"m", "d">>, MD_dotted}],
      [keys |-> {K_hostname}, targets |-> {K_hostname, K_timezone},
       mds |-> {MD_dotted, MD_empty_segment}] }

\* the metadata sections of the defaults documents of a client: at most one
\* record
DefaultsMetadataTexts(targets, mds) ==
    { <<>> } \cup
    { << [key |-> k, md |-> m, val |-> DefaultValue] >> :
        <<k, m>> \in targets \X mds }

DefaultsInit ==
    /\ dirs = [S \in Scopes |-> {}]
    /\ files = [S \in Scopes |-> <<>>]
    /\ last = [op |-> "new", ok |-> TRUE, err |-> "", metadatas |-> <<>>]
    /\ client \in DefaultsClients

PopulateDefaultText ==
    \E doc \in DefaultsDocs(client.keys),
       metadatas \in DefaultsMetadataTexts(client.targets, client.mds) :
        \E defaults \in PairOrders(doc),
           f \in FaultChoices(Cardinality(DOMAIN doc)),
           mf \in FaultChoices(Len(metadatas)) :
            LET r == populate_default(store, defaults, metadatas,
                                      f[1], f[2], mf[1], mf[2])
            IN  /\ Becomes(r.d)
                /\ last' = [op |-> "populate_default", ok |-> r.ok,
                            err |-> r.err, metadatas |-> metadatas]

SetKeyOfDefaults ==
    \E k \in DataKeys(client.keys), v \in Values, S \in Scopes, fault \in Faults :
        LET r == set_key(store, k, v, S, fault)
        IN  /\ Becomes(r.d)
            /\ last' = [op |-> "set_key", ok |-> r.ok, err |-> r.err,
                        metadatas |-> <<>>]

SetMetadataOfDefaults ==
    \E m \in MetaKeys, k \in DataKeys(client.targets), v \in Values,
       fault \in Faults :
        LET r == set_metadata(store, m, k, v, fault)
        IN  /\ Becomes(r.d)
            /\ last' = [op |-> "set_metadata", ok |-> r.ok, err |-> r.err,
                        metadatas |-> <<>>]

DefaultsNext == PopulateDefaultText \/ SetKeyOfDefaults \/ SetMetadataOfDefaults

DefaultsSpec == DefaultsInit /\ [][DefaultsNext]_vars

\* the metadata keys the live tree stores: of each file whose name has the
\* metadata separator, the text after the first one (the name of a data file
\* is a segment of a data key and has none)
StoredMetadataKeys(d) ==
    { SubSeq(name, Len(Split(name, METADATA_KEY_PREFIX)[1]) + 2, Len(name)) :
        name \in { p[Len(p)] : p \in { q \in DOMAIN d.files["Live"] :
                      \E i \in 1..Len(q[Len(q)]) :
                          q[Len(q)][i] = METADATA_KEY_PREFIX } } }

\* C21: every metadata key the store holds, those written by
\* populate_default included, is a valid key of Meta kind; populate_default
\* of a defaults document with a metadata record whose md text has several
\* dotted segments fails with InvalidKey and writes no metadata.
C21_StoredMetadataKeysAreMetaKeys ==
    /\ \A m \in StoredMetadataKeys(store) : KeyNew("Meta", m).ok
    /\ (/\ last.op = "populate_default"
        /\ \E i \in DOMAIN last.metadatas :
               /\ KeyNew("Data", last.metadatas[i].md).ok
               /\ ~KeyNew("Meta", last.metadatas[i].md).ok)
           => ~last.ok /\ last.err = "InvalidKey"

(***************************************************************************)
(* The materializer: the caller builds the registry of the descriptors,    *)
(* renders them and, when the rendering succeeded, writes the rendered     *)
(* files                                                                   *)
(***************************************************************************)

P_a == <<"/", "a">>

P_ab == <<"/", "a", "/", "b">>

P_root == <<"/">>

\* the target paths of the descriptors
TargetPaths == {P_a, P_ab, P_root}

TP_one == <<"/", "t", "/", "o", "n", "e">>

TP_two == <<"/", "t", "/", "t", "w", "o">>

\* the paths of the template files
TemplatePaths == {TP_one, TP_two}

\* a template that refers to the hostname below "settings"
T_wrapped ==
    << TextPiece(<<"h", "=">>), VarPiece(<<K_settings, FieldName.hostname>>) >>

\* a template that refers to the hostname at the top of the context
T_bare == << VarPiece(<<FieldName.hostname>>), TextPiece(<<"!">>) >>

\* a template whose helper fails
T_failing == << TextPiece(<<"x">>), FailPiece >>

Templates == {T_wrapped, T_bare, T_failing}

\* the Settings the descriptors are rendered against
RenderSettings == { s \in Settings : ~s.timezone.some }

OldBytes == <<"o", "l", "d">>

\* the disks before the run: an empty one, and one with the file /a
Disks ==
    { [dirs |-> {<<>>}, files |-> <<>>],
      [dirs |-> {<<>>}, files |-> (<< <<"a">> >> :> OldBytes)] }

\* the maps of descriptors
ConfigurationFilesMaps ==
    UNION { [names -> { ConfigurationFile(path, tp) :
                          path \in TargetPaths, tp \in TemplatePaths }] :
              names \in SUBSET {N_foo, N_bar} }

\* what one run of the materializer is given
RenderInputs ==
    { [config_files |-> cf, template_files |-> tf, settings |-> st,
       disk |-> dk] :
        cf \in ConfigurationFilesMaps,
        tf \in [TemplatePaths -> Templates],
        st \in RenderSettings,
        dk \in Disks }

NotRendered ==
    [op |-> "start", ok |-> TRUE, err |-> "", template |-> <<>>,
     rendered |-> <<>>, pathtype |-> "", failedAt |-> 0]

RenderInit ==
    /\ client \in RenderInputs
    /\ dirs = client.disk.dirs
    /\ files = client.disk.files
    /\ last = NotRendered

RenderConfigFiles ==
    /\ last.op = "start"
    /\ \E names \in Orders(DOMAIN client.config_files) :
           LET registry == build_template_registry(client.config_files,
                                                   client.template_files)
               r == render_config_files(registry, client.config_files,
                                        client.settings, names)
           IN  last' = [NotRendered EXCEPT
                          !.op = "render_config_files", !.ok = r.ok,
                          !.err = r.err, !.template = r.template,
                          !.rendered = r.rendered]
    /\ UNCHANGED <<dirs, files, client>>

\* the faults that may hit a run of n writes: none, or one at write number i
WriteFaultChoices(n) ==
    { <<0, "none">> } \cup ((1..n) \X (WriteFaults \ {"none"}))

WriteConfigFiles ==
    /\ last.op = "render_config_files" /\ last.ok
    /\ \E f \in WriteFaultChoices(Len(last.rendered)) :
           LET r == write_config_files(store, last.rendered, f[1], f[2])
           IN  /\ dirs' = r.disk.dirs
               /\ files' = r.disk.files
               /\ last' = [last EXCEPT
                             !.op = "write_config_files", !.ok = r.ok,
                             !.err = r.err, !.pathtype = r.pathtype,
                             !.failedAt = r.failedAt]
    /\ UNCHANGED client

RenderNext == RenderConfigFiles \/ WriteConfigFiles

RenderSpec == RenderInit /\ [][RenderNext]_vars

\* what each template of the model renders to, given the Settings
HostnameText(settings) ==
    IF settings.hostname.some THEN settings.hostname.value ELSE <<>>

ExpectedText(template, settings) ==
    IF template = T_wrapped THEN <<"h", "=">> \o HostnameText(settings)
    ELSE <<"!">>

\* the template file of the descriptor of the name
TemplateOf(name) ==
    client.template_files[client.config_files[name].template_path]

\* the descriptors whose template fails to render
FailingNames == { n \in DOMAIN client.config_files : TemplateOf(n) = T_failing }

C28_RenderingIsAllOrNothing ==
    /\ (last.op = "render_config_files" /\ FailingNames # {}) =>
           /\ ~last.ok /\ last.err = "TemplateRender"
           /\ last.template \in FailingNames
           /\ last.rendered = <<>>
    /\ (last.op = "render_config_files" /\ FailingNames = {}) => last.ok
    /\ FailingNames # {} =>
           /\ store = client.disk
           /\ last.op # "write_config_files"

\* of two descriptors one has a template that renders and one a template
\* that fails: the rendering has failed and named the failing one
C28_Witness ==
    /\ last.op = "render_config_files" /\ ~last.ok
    /\ DOMAIN client.config_files = {N_foo, N_bar}
    /\ FailingNames = {N_bar}
    /\ last.template = N_bar

\* the components of the target path of the i-th output of the batch
TargetOf(i) == Components(last.rendered[i].path)

\* the file holds the bytes, under directories
HoldsFile(d, path, bytes) ==
    /\ path \in DOMAIN d.files
    /\ d.files[path] = bytes
    /\ \A n \in 0..(Len(path) - 1) : SubSeq(path, 1, n) \in d.dirs

\* the last of the first n outputs of the batch that has the target path of
\* the i-th
LastWithTarget(i, n) ==
    CHOOSE j \in i..n :
        /\ TargetOf(j) = TargetOf(i)
        /\ \A k \in (j + 1)..n : TargetOf(k) # TargetOf(i)

\* C29 as stated: after a successful write_config_files the file at the
\* target path of every output of the batch exists under its directories
\* and holds that output's bytes; a failed one fails with TemplateWrite, of
\* pathtype directory or file, and the files written before it stay written.
C29_EveryOutputIsOnDisk ==
    last.op = "write_config_files" =>
        IF last.ok
        THEN \A i \in 1..Len(last.rendered) :
                 HoldsFile(store, TargetOf(i), last.rendered[i].rendered)
        ELSE /\ last.err = "TemplateWrite"
             /\ last.pathtype \in {"directory", "file"}
             /\ \A i \in 1..(last.failedAt - 1) :
                    HoldsFile(store, TargetOf(i), last.rendered[i].rendered)

\* C29 amended: after a successful write_config_files the file at the target
\* path of every output of the batch exists under its directories and holds
\* the bytes of the last output of the batch with that target path; a failed
\* one fails with TemplateWrite, of pathtype directory or file, at its first
\* failing write, and every output before that one whose target path is not
\* that of the failing write is on disk in the same way.
C29_LastOutputOfEachPathIsOnDisk ==
    last.op = "write_config_files" =>
        IF last.ok
        THEN \A i \in 1..Len(last.rendered) :
                 HoldsFile(store, TargetOf(i),
                     last.rendered[LastWithTarget(i, Len(last.rendered))].rendered)
        ELSE /\ last.err = "TemplateWrite"
             /\ last.pathtype \in {"directory", "file"}
             /\ last.failedAt \in 1..Len(last.rendered)
             /\ \A i \in 1..(last.failedAt - 1) :
                    TargetOf(i) # TargetOf(last.failedAt) =>
                        HoldsFile(store, TargetOf(i),
                            last.rendered[LastWithTarget(i, last.failedAt - 1)].rendered)

\* two outputs with different bytes for the path /a were written over the
\* old file /a: the file holds the bytes of the second
C29_Witness ==
    /\ last.op = "write_config_files" /\ last.ok
    /\ Len(last.rendered) = 2
    /\ client.disk.files # <<>>
    /\ TargetOf(1) = <<"a">> /\ TargetOf(2) = <<"a">>
    /\ last.rendered[1].rendered # last.rendered[2].rendered
    /\ store.files[<<"a">>] = last.rendered[2].rendered

(***************************************************************************)
(* The three views of the population of a key                              *)
(***************************************************************************)

\* the key is in the listing of all the populated keys of the scope
Listed(d, k, S) ==
    LET r == list_populated_keys(d, <<>>, S) IN r.ok /\ k \in r.keys

\* C31: in every reachable state, for every valid Data key k and scope S,
\* key_populated(k, S) is true iff get_key(k, S) returns Some iff k is in
\* list_populated_keys("", S); so key_populated is false for a key that is
\* only an inner segment-prefix of populated keys.
C31_ViewsOfPopulationAgree ==
    \A k \in DataKeys(DataKeyTexts), S \in Scopes :
        LET kp == key_populated(store, k, S)
        IN  /\ kp.ok
            /\ kp.value <=> Populated(store, k, S)
            /\ kp.value <=> Listed(store, k, S)

(***************************************************************************)
(* Callers that do and do not serialize.  In RaceSpec a commit takes three *)
(* steps (the read of the pending data, the copy to Live, the removal of   *)
(* the pending tree) and a read of the controller two (the listing, the    *)
(* fetch of the listed keys).  One client serializes: it starts no call    *)
(* while another is under way.  One lets its writes race with a commit,    *)
(* one lets its reads race with writes and commits.  The client keeps, for *)
(* each key, its last acknowledged write to Pending and whether it was     *)
(* made while a commit was under way that had not read its value.          *)
(***************************************************************************)

RaceKeys == {K_hostname, K_timezone}

\* the values the client writes: any value to the hostname, one value to
\* the time zone
RaceValues(k) == IF k = K_hostname THEN Values ELSE {DefaultValue}

NoAck == [some |-> FALSE, value |-> <<>>, raced |-> FALSE]

\* the record of a call that returns no set
RaceLast(op, ok, err) ==
    [op |-> op, ok |-> ok, err |-> err, ret |-> {}, data |-> <<>>,
     raced |-> [k \in RaceKeys |-> NoAck], live0 |-> <<>>]

RaceInit ==
    /\ dirs = [S \in Scopes |-> {}]
    /\ files = [S \in Scopes |-> <<>>]
    /\ last = RaceLast("new", TRUE, "")
    /\ client \in
         { [races |-> r, acked |-> [k \in RaceKeys |-> NoAck],
            pc |-> "idle", data |-> <<>>, live0 |-> <<>>,
            rpc |-> "idle", rscope |-> "Pending", listed |-> {},
            removed |-> FALSE] : r \in {"none", "writes", "reads"} }

\* a write may start: no call is under way, or the client lets writes race
\* with the commit under way, or lets the read under way race with writes
MayWrite ==
    \/ client.pc = "idle" /\ client.rpc = "idle"
    \/ client.races = "writes" /\ client.rpc = "idle"
    \/ client.races = "reads" /\ client.pc = "idle"

\* a commit may start: no call is under way, or the client lets the read
\* under way race with commits
MayCommit ==
    /\ client.pc = "idle"
    /\ client.rpc = "idle" \/ client.races = "reads"

\* a read may start: no call is under way, or the client lets reads race
\* with the commit under way
MayRead ==
    /\ client.rpc = "idle"
    /\ client.pc = "idle" \/ client.races = "reads"

\* the writes to Pending made while the commit was under way are no longer
\* marked when the commit has failed: they are in Pending like the others
Unmarked(acked) == [k \in RaceKeys |-> [acked[k] EXCEPT !.raced = FALSE]]

\* the write of v to k races with the commit under way: the commit has read
\* the pending data, and not this value for the key
Races(k, v) ==
    /\ client.pc # "idle"
    /\ ~(k \in DOMAIN client.data /\ client.data[k] = v)

\* set_key(k, v, Pending)
RaceSetKey ==
    /\ MayWrite
    /\ \E k \in RaceKeys, fault \in Faults : \E v \in RaceValues(k) :
        LET r == set_key(store, k, v, "Pending", fault)
        IN  /\ dirs' = r.d.dirs
            /\ files' = r.d.files
            /\ client' = IF r.ok
                         THEN [client EXCEPT
                                 !.acked[k] = [some |-> TRUE, value |-> v,
                                               raced |-> Races(k, v)]]
                         ELSE client
            /\ last' = RaceLast("set_key", r.ok, r.err)

\* commit, first step: get_prefix("settings.", Pending)
CommitRead ==
    /\ MayCommit
    /\ LET r == get_prefix(store, SettingsPrefix, "Pending")
       IN  /\ UNCHANGED <<dirs, files>>
           /\ IF r.ok
              THEN /\ client' = [client EXCEPT
                                   !.pc = "read", !.data = r.map,
                                   !.live0 = [k \in RaceKeys |->
                                                get_key(store, k, "Live")]]
                   /\ last' = RaceLast("commit_read", TRUE, "")
              ELSE /\ client' = client
                   /\ last' = RaceLast("commit", FALSE, r.err)

\* commit, second step: set_keys(pending_data, Live)
CommitCopy ==
    /\ client.pc = "read"
    /\ \E order \in PairOrders(client.data),
          f \in FaultChoices(Cardinality(DOMAIN client.data)) :
        LET r == set_keys(store, order, "Live", f[1], f[2])
        IN  /\ dirs' = r.d.dirs
            /\ files' = r.d.files
            /\ IF r.ok
               THEN /\ client' = [client EXCEPT !.pc = "copied"]
                    /\ last' = RaceLast("commit_copy", TRUE, "")
               ELSE /\ client' = [client EXCEPT
                                    !.pc = "idle", !.data = <<>>,
                                    !.live0 = <<>>,
                                    !.acked = Unmarked(@)]
                    /\ last' = RaceLast("commit", FALSE, r.err)

\* commit, last step: remove_dir_all of the pending tree, and the return of
\* the keys read in the first step
CommitRemove ==
    /\ client.pc = "copied"
    /\ \E rmFault \in BOOLEAN :
        LET r == remove_pending(store, rmFault)
        IN  /\ dirs' = r.d.dirs
            /\ files' = r.d.files
            /\ IF r.ok
               THEN /\ client' = [client EXCEPT
                                    !.pc = "idle", !.data = <<>>,
                                    !.live0 = <<>>,
                                    !.acked = [k \in RaceKeys |->
                                                 IF @[k].raced THEN NoAck
                                                 ELSE @[k]],
                                    !.removed = @ \/ client.rpc = "listed"]
                    /\ last' = [op |-> "commit", ok |-> TRUE, err |-> "",
                                ret |-> DOMAIN client.data,
                                data |-> client.data,
                                raced |-> [k \in RaceKeys |->
                                             IF client.acked[k].raced
                                             THEN client.acked[k]
                                             ELSE NoAck],
                                live0 |-> client.live0]
               ELSE /\ client' = [client EXCEPT
                                    !.pc = "idle", !.data = <<>>,
                                    !.live0 = <<>>,
                                    !.acked = Unmarked(@)]
                    /\ last' = RaceLast("commit", FALSE, r.err)

\* get_prefix of the controller, first step: the listing
ReadList ==
    /\ MayRead
    /\ UNCHANGED <<dirs, files>>
    /\ \E S \in Scopes :
        LET r == list_populated_keys(store, SettingsPrefix, S)
        IN  IF r.ok
            THEN /\ client' = [client EXCEPT
                                 !.rpc = "listed", !.rscope = S,
                                 !.listed = r.keys, !.removed = FALSE]
                 /\ last' = RaceLast("list", TRUE, "")
            ELSE /\ client' = client
                 /\ last' = RaceLast("get_prefix", FALSE, "DataStore")

\* the fetch of the listed keys: an error of get_key is DataStore, a key that
\* is not there ListedKeyNotPresent
fetch_listed(d, keys, committed) ==
    LET reads == [k \in keys |-> get_key(d, k, committed)]
    IN  IF \E k \in keys : ~reads[k].ok THEN "DataStore"
        ELSE IF \E k \in keys : ~reads[k].some THEN "ListedKeyNotPresent"
        ELSE ""

\* get_prefix of the controller, second step: the fetch
ReadFetch ==
    /\ client.rpc = "listed"
    /\ UNCHANGED <<dirs, files>>
    /\ LET err == fetch_listed(store, client.listed, client.rscope)
       IN  /\ client' = [client EXCEPT !.rpc = "idle", !.listed = {}]
           /\ last' = RaceLast("get_prefix", err = "", err)

RaceNext ==
    \/ RaceSetKey
    \/ CommitRead
    \/ CommitCopy
    \/ CommitRemove
    \/ ReadList
    \/ ReadFetch

RaceSpec == RaceInit /\ [][RaceNext]_vars

\* C32: in every state every key that list_populated_keys returns for a
\* prefix and a scope is Some for get_key in that scope, and a read of the
\* controller made in one piece does not fail with ListedKeyNotPresent; a
\* read in two steps fails with it only for Pending, for the client whose
\* reads race, after a commit has removed the pending tree between the
\* listing and the fetch.
C32_ListedKeysArePresent ==
    /\ \A P \in PrefixTexts, S \in Scopes :
           LET r == list_populated_keys(store, P, S)
           IN  r.ok => \A k \in r.keys : Populated(store, k, S)
    /\ \A S \in Scopes :
           controller_get_prefix(store, S, SettingsPrefix).err
               # "ListedKeyNotPresent"
    /\ (last.op = "get_prefix" /\ last.err = "ListedKeyNotPresent") =>
           /\ client.races = "reads"
           /\ client.removed
           /\ client.rscope = "Pending"

\* a read of Pending has failed with ListedKeyNotPresent after a commit that
\* removed the pending tree between its two steps
C32_Witness ==
    /\ last.op = "get_prefix" /\ last.err = "ListedKeyNotPresent"
    /\ client.removed

\* the last acknowledged write of every key is in Pending or in Live
AckedWritesAreKept ==
    \A k \in RaceKeys :
        client.acked[k].some =>
            \/ get_key(store, k, "Pending") = ReadSome(client.acked[k].value)
            \/ get_key(store, k, "Live") = ReadSome(client.acked[k].value)

\* after a successful commit, the write of k made while it was under way is
\* not in Pending, and Live holds for k what the commit read for it, or what
\* Live held before when the commit read nothing for it
RacedWriteIsDiscarded(k) ==
    /\ get_key(store, k, "Pending") = ReadNone
    /\ get_key(store, k, "Live") =
           IF k \in DOMAIN last.data THEN ReadSome(last.data[k])
           ELSE last.live0[k]

\* C33 as stated: for a client whose writes do not race, the last acknowledged write
\* of every key is in Pending or in Live (the earlier ones were overwritten);
\* a write to Pending made between the read and the removal of a commit
\* that succeeds is discarded and its key is not in the returned set.
C33_RacedWriteIsAbsentFromTheSet ==
    /\ client.races # "writes" => AckedWritesAreKept
    /\ (last.op = "commit" /\ last.ok) =>
           \A k \in RaceKeys :
               last.raced[k].some =>
                   /\ RacedWriteIsDiscarded(k)
                   /\ k \notin last.ret

\* C33 (amended): for a client whose writes do not race, the last acknowledged write
\* of every key is in Pending or in Live; a write to Pending made between
\* the read and the removal of a commit that succeeds is discarded, and the
\* returned set is the set of the keys the commit read: it holds the key of
\* the discarded write iff the key was pending at the read.
C33_RacedWriteIsDiscarded ==
    /\ client.races # "writes" => AckedWritesAreKept
    /\ (last.op = "commit" /\ last.ok) =>
           /\ last.ret = DOMAIN last.data
           /\ \A k \in RaceKeys :
                  last.raced[k].some => RacedWriteIsDiscarded(k)

\* a commit has succeeded after a write of the hostname made while it was
\* under way: it returns the hostname, and Live holds the value the commit
\* read, not the value of the discarded write
C33_Witness ==
    /\ last.op = "commit" /\ last.ok
    /\ last.raced[K_hostname].some
    /\ K_hostname \in last.ret
    /\ get_key(store, K_hostname, "Live") = ReadSome(last.data[K_hostname])
    /\ last.data[K_hostname] # last.raced[K_hostname].value

====
